---------------------------- MODULE Spec2Model ----------------------------
(***************************************************************************)
(* A model of the MAS financial market laboratory: the three strategy      *)
(* agents (MarketMaker, ValueInvestor, MomentumTrader), the AgentManager   *)
(* scheduler and the SimulationEngine tick loop.                           *)
(*                                                                         *)
(* Numbers.  Python floats are modelled in fixed point:                    *)
(*   - a price is an integer number of 1/PriceScale currency units;        *)
(*   - cash is an integer number of currency units;                        *)
(*   - a fraction parameter (bounds, thresholds, fee rate) is an integer   *)
(*     number of hundredths (Pct);                                         *)
(*   - a ratio computed at run time is the exact pair [n, d], d > 0, and   *)
(*     every comparison of ratios is done by cross multiplication.         *)
(* An Optional value is <<>> (None) or <<v>>.                              *)
(***************************************************************************)
EXTENDS Integers, Sequences, FiniteSets, TLC

VARIABLES
    kind,         \* SpecAgent: the class of the agent under drive
    acct,         \* the agent's live AccountView [cash, shares]
    agent,        \* the agent instance (the record of its attributes)
    phase,        \* "idle" | "decided" | "fed"
    pre,          \* the agent's state when the latest decide was entered
    view,         \* the AgentView handed to the latest decide
    intents,      \* the list the latest decide returned
    feedback,     \* the AgentFeedback built from it
    tick,         \* global tick of the next decide
    issued,       \* the last intent_id any earlier decide issued (None: none yet)
    next_order_id, \* the market's order id counter
    sim,          \* SpecEngine: the realtime data (ticks and the shared views)
    mgr,          \* the AgentManager: population, per-type maps, generator
    env,          \* the Environment, as far as the engine drives it
    loop,         \* the frame of SimulationEngine.run / _agent_loop
    members,      \* agent id -> the agent's intent-id counter
    trace,        \* the calls the engine made in the current tick, in order
    captured,     \* the economy insight fetched at the latest macro tick
    runs,         \* SpecTwoRuns: two runs of one population under one seed
    calc          \* SpecMomentum, SpecPopulation: the input of one call and its result

avars == <<kind, acct, agent, phase, pre, view, intents, feedback, tick,
           issued, next_order_id>>
evars == <<sim, mgr, env, loop, members, trace, captured>>
vars == <<kind, acct, agent, phase, pre, view, intents, feedback, tick,
          issued, next_order_id, sim, mgr, env, loop, members, trace, captured,
          runs, calc>>

-----------------------------------------------------------------------------
(* Bounds of the model *)
MaxTick == 2

(* Program constants *)
PriceScale == 100

None == <<>>
Some(v) == <<v>>
IsNone(o) == o = <<>>
Val(o) == o[1]

Abs(x) == IF x < 0 THEN -x ELSE x
Min(a, b) == IF a <= b THEN a ELSE b
Max(a, b) == IF a >= b THEN a ELSE b
Sign(x) == IF x > 0 THEN 1 ELSE IF x < 0 THEN -1 ELSE 0

RECURSIVE Gcd(_, _)
Gcd(a, b) == IF b = 0 THEN a ELSE Gcd(b, a % b)

\* int(a / b) of two non-negative numbers, b > 0
IntDiv(a, b) == a \div b

\* an exact ratio n/d with d > 0, kept in lowest terms
Ratio(n, d) == LET g == Gcd(Abs(n), d) IN [n |-> n \div g, d |-> d \div g]
PctRatio(p) == Ratio(p, 100)
\* sign of (r - p/100)
CmpPct(r, p) == Sign(100 * r.n - p * r.d)
\* exact sum and product of two ratios; the product cancels across first
RatAdd(a, b) == Ratio(a.n * b.d + b.n * a.d, a.d * b.d)
RatMul(a, b) ==
    LET g1 == Gcd(Abs(a.n), b.d)
        g2 == Gcd(Abs(b.n), a.d)
    IN Ratio((a.n \div g1) * (b.n \div g2), (a.d \div g2) * (b.d \div g1))
\* int(r): truncation toward zero
RatInt(r) == IF r.n >= 0 THEN r.n \div r.d ELSE -((-r.n) \div r.d)

-----------------------------------------------------------------------------
(* Intents (agents.intents) *)
BUY == "BUY"
SELL == "SELL"
LIMIT == "LIMIT"
MARKET == "MARKET"
WORKING == "WORKING"
DONE == "DONE"
FILLED == "FILLED"
CANCELLED == "CANCELLED"

PlaceOrderIntent(id, side, order_type, quantity, price) ==
    [kind |-> "PlaceOrder", intent_id |-> id, side |-> side,
     order_type |-> order_type, quantity |-> quantity, price |-> price]
CancelOrderIntent(id, order_id) ==
    [kind |-> "CancelOrder", intent_id |-> id, order_id |-> order_id]
CreateDepositIntent(id, amount, term) ==
    [kind |-> "CreateDeposit", intent_id |-> id, amount |-> amount, term |-> term]

OrderView(order_id, side, lifecycle, end_reason, price) ==
    [order_id |-> order_id, side |-> side, lifecycle |-> lifecycle,
     end_reason |-> end_reason, price |-> price]

DepositView(deposit_id, amount, term) ==
    [deposit_id |-> deposit_id, amount |-> amount, term |-> term]


-----------------------------------------------------------------------------
(***************************************************************************)
(* MarketMaker (agents/agents/market_maker.py)                             *)
(*                                                                         *)
(* self is the record of the instance's attributes; account is the live    *)
(* AccountView.  An operator that mutates the instance returns the new     *)
(* record next to its result.                                              *)
(***************************************************************************)
MM_init(cfg) ==
    [target_inventory_fraction |-> cfg.target_inventory_fraction,
     risk_lower_bound |-> cfg.risk_lower_bound,
     risk_upper_bound |-> cfg.risk_upper_bound,
     stabilization_tolerance |-> cfg.stabilization_tolerance,
     spread_size |-> cfg.spread_size,
     order_size |-> cfg.order_size,
     wait_time |-> cfg.wait_time,
     skew_factor |-> cfg.skew_factor,
     fee_rate |-> cfg.fee_rate,
     simulation_micro_tick |-> cfg.simulation_micro_tick,
     active_bids |-> <<>>,
     active_asks |-> <<>>,
     last_known_price |-> None,
     current_micro_tick |-> 0,
     last_mid_price |-> None,
     last_inventory_ratio |-> None,
     layer_changed |-> FALSE,
     order_filled_this_tick |-> FALSE,
     last_layer |-> "PROVIDE",
     current_global_tick |-> 0,
     last_quote_global_tick |-> None,
     intent_id |-> 0]

\* the intent_id property: the value it returns and the counter it leaves
\* mutant: the counter is read and not advanced
MM_intent_id_stuck(c) == [value |-> c, counter |-> c]

MM_intent_id(c) == [value |-> c, counter |-> c + 1]

\* n successive PlaceOrder/CancelOrder constructions draw n successive ids
RECURSIVE MM_issue_cancels(_, _)
MM_issue_cancels(order_ids, c) ==
    IF order_ids = <<>> THEN [intents |-> <<>>, counter |-> c]
    ELSE LET id == MM_intent_id(c)
             rest == MM_issue_cancels(Tail(order_ids), id.counter)
         IN [intents |-> <<CancelOrderIntent(id.value, Head(order_ids))>> \o rest.intents,
             counter |-> rest.counter]

MM_calculate_inventory_ratio(self, account) ==
    IF IsNone(self.last_known_price)
    THEN PctRatio(self.target_inventory_fraction)
    ELSE LET cash == account.cash * PriceScale
             total_wealth == cash + account.shares * Val(self.last_known_price)
         IN IF total_wealth <= 0
            THEN PctRatio(self.target_inventory_fraction)
            ELSE Ratio(cash, total_wealth)

MM_should_survive(self, account) ==
    LET inventory_ratio == MM_calculate_inventory_ratio(self, account)
    IN \/ CmpPct(inventory_ratio, self.risk_lower_bound) < 0
       \/ CmpPct(inventory_ratio, self.risk_upper_bound) > 0

\* |r - target| as the pair [n, d]: deviation = n / (100 * d)
MM_deviation(self, inventory_ratio) ==
    [n |-> Abs(100 * inventory_ratio.n - self.target_inventory_fraction * inventory_ratio.d),
     d |-> inventory_ratio.d]

MM_should_stabilize(self, account) ==
    LET inventory_ratio == MM_calculate_inventory_ratio(self, account)
        deviation == MM_deviation(self, inventory_ratio)
    IN deviation.n > self.stabilization_tolerance * deviation.d

\* mutant: the stabilize test comes first
MM_determine_current_layer_stabilize_first(self, account) ==
    IF MM_should_stabilize(self, account) THEN "STABILIZE"
    ELSE IF MM_should_survive(self, account) THEN "SURVIVE"
    ELSE "PROVIDE"

MM_determine_current_layer(self, account) ==
    IF MM_should_survive(self, account) THEN "SURVIVE"
    ELSE IF MM_should_stabilize(self, account) THEN "STABILIZE"
    ELSE "PROVIDE"

\* returns [price, self]: the price estimate and the instance with
\* last_known_price recorded
MM_estimate_price(self, v) ==
    LET md == v.market_data_view IN
    IF ~IsNone(md.mid_price)
    THEN [price |-> md.mid_price, self |-> [self EXCEPT !.last_known_price = md.mid_price]]
    ELSE IF ~IsNone(md.micro_price)
    THEN [price |-> md.micro_price, self |-> [self EXCEPT !.last_known_price = md.micro_price]]
    ELSE IF ~IsNone(md.last_traded_price)
    THEN [price |-> md.last_traded_price,
          self |-> [self EXCEPT !.last_known_price = md.last_traded_price]]
    ELSE IF ~IsNone(self.last_known_price)
    THEN [price |-> self.last_known_price, self |-> self]
    ELSE LET tv == Val(v.economy_insight_view).tv_interval
         IN [price |-> Some((tv[1] + tv[2]) \div 2), self |-> self]

\* max(0.01, p)
MM_floor_price(p) == Max(PriceScale \div 100, p)

\* int(cash / (price * (1 + fee_rate)))
MM_affordable(cash, price, fee_rate) ==
    IntDiv(cash * PriceScale * 100, price * (100 + fee_rate))

\* mutant: the bid quantity is not capped by the cash
MM_validate_bid_quantity_uncapped(self, account, quantity) ==
    IF quantity <= 0 THEN 0 ELSE quantity

MM_validate_bid_quantity(self, account, quantity) ==
    IF quantity <= 0 THEN 0
    ELSE IF account.cash <= 0 THEN 0
    ELSE IF IsNone(self.last_known_price) THEN 0
    ELSE Min(quantity, MM_affordable(account.cash, Val(self.last_known_price), self.fee_rate))

MM_validate_ask_quantity(self, account, quantity) ==
    IF quantity <= 0 THEN 0 ELSE Min(quantity, account.shares)

MM_is_quote_equivalent(order_view, target_price, target_side) ==
    IF order_view.lifecycle # WORKING THEN FALSE
    ELSE IF order_view.side # target_side THEN FALSE
    ELSE /\ ~IsNone(order_view.price)
         /\ Abs(Val(order_view.price) - target_price) <= 1 * PriceScale

\* mutant: the cache is never found to cover a side
MM_has_equivalent_working_order_never(self, side, target_price) == FALSE

MM_has_equivalent_working_order(self, side, target_price) ==
    LET orders == IF side = BUY THEN self.active_bids ELSE self.active_asks
    IN \E i \in 1..Len(orders) : MM_is_quote_equivalent(orders[i], target_price, side)

\* the order ids of a list of cache items, in dict order
MM_order_ids(orders) == [i \in 1..Len(orders) |-> orders[i].order_id]

MM_is_working(o) == o.lifecycle = WORKING


\* mutant: the ask cache is forgotten
MM_cancel_all_orders_bids_only(self) ==
    LET ids == MM_order_ids(SelectSeq(self.active_bids, MM_is_working))
        out == MM_issue_cancels(ids, self.intent_id)
    IN [intents |-> out.intents, self |-> [self EXCEPT !.intent_id = out.counter]]

\* mutant: the cancelled orders are dropped from the caches at once
MM_cancel_all_orders_drops_cancelled(self) ==
    LET ids == MM_order_ids(SelectSeq(self.active_bids, MM_is_working))
               \o MM_order_ids(SelectSeq(self.active_asks, MM_is_working))
        out == MM_issue_cancels(ids, self.intent_id)
    IN [intents |-> out.intents,
        self |-> [self EXCEPT !.intent_id = out.counter,
                              !.active_bids = SelectSeq(@, LAMBDA o : ~MM_is_working(o)),
                              !.active_asks = SelectSeq(@, LAMBDA o : ~MM_is_working(o))]]

\* mutant: every cached order is cancelled, whatever its lifecycle
MM_cancel_all_orders_any_lifecycle(self) ==
    LET ids == MM_order_ids(self.active_bids) \o MM_order_ids(self.active_asks)
        out == MM_issue_cancels(ids, self.intent_id)
    IN [intents |-> out.intents, self |-> [self EXCEPT !.intent_id = out.counter]]

MM_cancel_all_orders(self) ==
    LET ids == MM_order_ids(SelectSeq(self.active_bids, MM_is_working))
               \o MM_order_ids(SelectSeq(self.active_asks, MM_is_working))
        out == MM_issue_cancels(ids, self.intent_id)
    IN [intents |-> out.intents, self |-> [self EXCEPT !.intent_id = out.counter]]

\* returns [intent, self]; intent is None or <<PlaceOrderIntent>>
MM_create_panic_sell_intent(self, account, v) ==
    IF account.shares <= 0 THEN [intent |-> None, self |-> self]
    ELSE LET est == MM_estimate_price(self, v) IN
         IF IsNone(est.price) THEN [intent |-> None, self |-> est.self]
         ELSE LET mid_price == Val(est.price)
                  panic_sell_price ==
                      MM_floor_price(mid_price - 5 * self.spread_size * PriceScale)
                  quantity == Min(account.shares, self.order_size * 3)
                  id == MM_intent_id(est.self.intent_id)
              IN [intent |-> Some(PlaceOrderIntent(id.value, SELL, LIMIT, quantity,
                                                   Some(panic_sell_price))),
                  self |-> [est.self EXCEPT !.last_mid_price = Some(mid_price),
                                            !.intent_id = id.counter]]

MM_create_panic_buy_intent(self, account, v) ==
    IF account.cash <= 0 THEN [intent |-> None, self |-> self]
    ELSE LET est == MM_estimate_price(self, v) IN
         IF IsNone(est.price) THEN [intent |-> None, self |-> est.self]
         ELSE LET mid_price == Val(est.price)
                  panic_buy_price == mid_price + 5 * self.spread_size * PriceScale
                  max_quantity == MM_affordable(account.cash, panic_buy_price, self.fee_rate)
                  quantity == Min(max_quantity, self.order_size * 3)
                  id == MM_intent_id(est.self.intent_id)
              IN IF quantity <= 0 THEN [intent |-> None, self |-> est.self]
                 ELSE [intent |-> Some(PlaceOrderIntent(id.value, BUY, LIMIT, quantity,
                                                        Some(panic_buy_price))),
                       self |-> [est.self EXCEPT !.last_mid_price = Some(mid_price),
                                                 !.intent_id = id.counter]]

\* every layer returns [intents, self]
MM_survive_layer(self, account, v) ==
    LET cancels == MM_cancel_all_orders(self)
        inventory_ratio == MM_calculate_inventory_ratio(cancels.self, account)
        panic == IF CmpPct(inventory_ratio, self.risk_lower_bound) < 0
                 THEN MM_create_panic_sell_intent(cancels.self, account, v)
                 ELSE IF CmpPct(inventory_ratio, self.risk_upper_bound) > 0
                 THEN MM_create_panic_buy_intent(cancels.self, account, v)
                 ELSE [intent |-> None, self |-> cancels.self]
    IN [intents |-> cancels.intents \o panic.intent, self |-> panic.self]

\* the sign of skew = -(ratio - target) * skew_factor
MM_skew_direction(self, inventory_ratio) ==
    - CmpPct(inventory_ratio, self.target_inventory_fraction) * Sign(self.skew_factor)

\* abs(skew / 100.0 * mid_price), truncated to the price grid
MM_abs_skew_shift(self, inventory_ratio, mid_price) ==
    LET dev == MM_deviation(self, inventory_ratio)
        q == dev.n \div dev.d
        rem == dev.n % dev.d
        f == Abs(self.skew_factor) * mid_price
    IN (q * f + (rem * f) \div dev.d) \div 10000

\* returns <<bid_price, ask_price>>
MM_calculate_skewed_prices(self, inventory_ratio, mid_price) ==
    LET max_shift == (self.spread_size * PriceScale) \div 2
        price_shift == MM_skew_direction(self, inventory_ratio)
                       * Min(MM_abs_skew_shift(self, inventory_ratio, mid_price), max_shift)
        shifted_mid == mid_price + price_shift
        half_spread == (self.spread_size * PriceScale) \div 2
        fee_per_share == (mid_price * self.fee_rate) \div 100
        bid_price == shifted_mid - half_spread - fee_per_share
        ask_price == shifted_mid + half_spread + fee_per_share
    IN <<MM_floor_price(bid_price), MM_floor_price(ask_price)>>

\* int(base_quantity * min(2.0 + deviation * 2, 3.0))
MM_supportive_quantity(self, dev) ==
    IF 2 * dev.n >= 100 * dev.d THEN self.order_size * 3
    ELSE (self.order_size * (200 * dev.d + 2 * dev.n)) \div (100 * dev.d)

\* int(base_quantity * max(0.5 - deviation, 0.25))
MM_risk_quantity(self, dev) ==
    IF dev.n >= 25 * dev.d THEN self.order_size \div 4
    ELSE (self.order_size * (50 * dev.d - dev.n)) \div (100 * dev.d)

\* mutant: the roles of the two sides are swapped
MM_calculate_skewed_quantities_roles_swapped(self, account, inventory_ratio) ==
    LET dev == MM_deviation(self, inventory_ratio)
        too_much_cash == CmpPct(inventory_ratio, self.target_inventory_fraction) > 0
        bid_quantity == IF too_much_cash THEN MM_risk_quantity(self, dev)
                        ELSE MM_supportive_quantity(self, dev)
        ask_quantity == IF too_much_cash THEN MM_supportive_quantity(self, dev)
                        ELSE MM_risk_quantity(self, dev)
    IN <<MM_validate_bid_quantity(self, account, bid_quantity),
         MM_validate_ask_quantity(self, account, ask_quantity)>>

\* returns <<bid_quantity, ask_quantity>>
MM_calculate_skewed_quantities(self, account, inventory_ratio) ==
    LET dev == MM_deviation(self, inventory_ratio)
        too_much_cash == CmpPct(inventory_ratio, self.target_inventory_fraction) > 0
        bid_quantity == IF too_much_cash THEN MM_supportive_quantity(self, dev)
                        ELSE MM_risk_quantity(self, dev)
        ask_quantity == IF too_much_cash THEN MM_risk_quantity(self, dev)
                        ELSE MM_supportive_quantity(self, dev)
    IN <<MM_validate_bid_quantity(self, account, bid_quantity),
         MM_validate_ask_quantity(self, account, ask_quantity)>>

\* mutant: both sides are swept, as in PROVIDE
MM_selective_stabilize_cancel_both(self, inventory_ratio, target_bid, target_ask) ==
    LET StaleBid(o) == MM_is_working(o) /\ ~MM_is_quote_equivalent(o, target_bid, BUY)
        StaleAsk(o) == MM_is_working(o) /\ ~MM_is_quote_equivalent(o, target_ask, SELL)
        ids == MM_order_ids(SelectSeq(self.active_bids, StaleBid))
               \o MM_order_ids(SelectSeq(self.active_asks, StaleAsk))
        out == MM_issue_cancels(ids, self.intent_id)
    IN [intents |-> out.intents, self |-> [self EXCEPT !.intent_id = out.counter]]

MM_selective_stabilize_cancel(self, inventory_ratio, target_bid, target_ask) ==
    LET StaleBid(o) == MM_is_working(o) /\ ~MM_is_quote_equivalent(o, target_bid, BUY)
        StaleAsk(o) == MM_is_working(o) /\ ~MM_is_quote_equivalent(o, target_ask, SELL)
        ids == IF CmpPct(inventory_ratio, self.target_inventory_fraction) < 0
               THEN MM_order_ids(SelectSeq(self.active_bids, StaleBid))
               ELSE MM_order_ids(SelectSeq(self.active_asks, StaleAsk))
        out == MM_issue_cancels(ids, self.intent_id)
    IN [intents |-> out.intents, self |-> [self EXCEPT !.intent_id = out.counter]]

\* mutant: only the bid cache is swept
MM_cancel_non_equivalent_orders_bids_only(self, bid_price, ask_price) ==
    LET StaleBid(o) == MM_is_working(o) /\ ~MM_is_quote_equivalent(o, bid_price, BUY)
        ids == MM_order_ids(SelectSeq(self.active_bids, StaleBid))
        out == MM_issue_cancels(ids, self.intent_id)
    IN [intents |-> out.intents, self |-> [self EXCEPT !.intent_id = out.counter]]

MM_cancel_non_equivalent_orders(self, bid_price, ask_price) ==
    LET StaleBid(o) == MM_is_working(o) /\ ~MM_is_quote_equivalent(o, bid_price, BUY)
        StaleAsk(o) == MM_is_working(o) /\ ~MM_is_quote_equivalent(o, ask_price, SELL)
        ids == MM_order_ids(SelectSeq(self.active_bids, StaleBid))
               \o MM_order_ids(SelectSeq(self.active_asks, StaleAsk))
        out == MM_issue_cancels(ids, self.intent_id)
    IN [intents |-> out.intents, self |-> [self EXCEPT !.intent_id = out.counter]]

\* the bid PlaceOrder, then the ask PlaceOrder, each if wanted
MM_place_quotes(self, want_bid, bid_quantity, bid_price, want_ask, ask_quantity, ask_price) ==
    LET id1 == MM_intent_id(self.intent_id)
        bid == IF want_bid
               THEN <<PlaceOrderIntent(id1.value, BUY, LIMIT, bid_quantity, Some(bid_price))>>
               ELSE <<>>
        c1 == IF want_bid THEN id1.counter ELSE self.intent_id
        id2 == MM_intent_id(c1)
        ask == IF want_ask
               THEN <<PlaceOrderIntent(id2.value, SELL, LIMIT, ask_quantity, Some(ask_price))>>
               ELSE <<>>
        c2 == IF want_ask THEN id2.counter ELSE c1
    IN [intents |-> bid \o ask, self |-> [self EXCEPT !.intent_id = c2]]

\* mutant: STABILIZE waits for wait_time ticks after the last quote, as PROVIDE does
MM_stabilize_layer_throttled(self, account, v) ==
    LET inventory_ratio == MM_calculate_inventory_ratio(self, account)
        est == MM_estimate_price(self, v)
        waiting == /\ ~IsNone(self.last_quote_global_tick)
                   /\ self.current_global_tick - Val(self.last_quote_global_tick)
                        < self.wait_time
    IN IF IsNone(est.price) \/ waiting THEN [intents |-> <<>>, self |-> est.self]
       ELSE
       LET mid_price == Val(est.price)
           skewed == MM_calculate_skewed_prices(est.self, inventory_ratio, mid_price)
           qty == MM_calculate_skewed_quantities(est.self, account, inventory_ratio)
           crossed == skewed[1] >= skewed[2]
           spread == Max(1 * PriceScale, (self.spread_size * PriceScale) \div 2)
           bid_price == IF crossed THEN mid_price - spread ELSE skewed[1]
           ask_price == IF crossed THEN mid_price + spread ELSE skewed[2]
           cancels == MM_selective_stabilize_cancel(est.self, inventory_ratio,
                                                    bid_price, ask_price)
           has_equivalent_bid == MM_has_equivalent_working_order(est.self, BUY, bid_price)
           has_equivalent_ask == MM_has_equivalent_working_order(est.self, SELL, ask_price)
           places == MM_place_quotes(cancels.self,
                        ~has_equivalent_bid /\ qty[1] > 0 /\ bid_price > 0, qty[1], bid_price,
                        ~has_equivalent_ask /\ qty[2] > 0 /\ ask_price > 0, qty[2], ask_price)
       IN [intents |-> cancels.intents \o places.intents,
           self |-> [places.self EXCEPT !.last_mid_price = Some(mid_price)]]

\* mutant: touching or crossed prices are quoted as they are
MM_stabilize_layer_no_recentre(self, account, v) ==
    LET inventory_ratio == MM_calculate_inventory_ratio(self, account)
        est == MM_estimate_price(self, v)
    IN IF IsNone(est.price) THEN [intents |-> <<>>, self |-> est.self]
       ELSE
       LET mid_price == Val(est.price)
           skewed == MM_calculate_skewed_prices(est.self, inventory_ratio, mid_price)
           qty == MM_calculate_skewed_quantities(est.self, account, inventory_ratio)
           cancels == MM_selective_stabilize_cancel(est.self, inventory_ratio,
                                                    skewed[1], skewed[2])
           has_equivalent_bid == MM_has_equivalent_working_order(est.self, BUY, skewed[1])
           has_equivalent_ask == MM_has_equivalent_working_order(est.self, SELL, skewed[2])
           places == MM_place_quotes(cancels.self,
                        ~has_equivalent_bid /\ qty[1] > 0 /\ skewed[1] > 0, qty[1], skewed[1],
                        ~has_equivalent_ask /\ qty[2] > 0 /\ skewed[2] > 0, qty[2], skewed[2])
       IN [intents |-> cancels.intents \o places.intents,
           self |-> [places.self EXCEPT !.last_mid_price = Some(mid_price)]]

MM_stabilize_layer(self, account, v) ==
    LET inventory_ratio == MM_calculate_inventory_ratio(self, account)
        est == MM_estimate_price(self, v)
    IN IF IsNone(est.price) THEN [intents |-> <<>>, self |-> est.self]
       ELSE
       LET mid_price == Val(est.price)
           skewed == MM_calculate_skewed_prices(est.self, inventory_ratio, mid_price)
           qty == MM_calculate_skewed_quantities(est.self, account, inventory_ratio)
           crossed == skewed[1] >= skewed[2]
           spread == Max(1 * PriceScale, (self.spread_size * PriceScale) \div 2)
           bid_price == IF crossed THEN mid_price - spread ELSE skewed[1]
           ask_price == IF crossed THEN mid_price + spread ELSE skewed[2]
           cancels == MM_selective_stabilize_cancel(est.self, inventory_ratio,
                                                    bid_price, ask_price)
           has_equivalent_bid == MM_has_equivalent_working_order(est.self, BUY, bid_price)
           has_equivalent_ask == MM_has_equivalent_working_order(est.self, SELL, ask_price)
           places == MM_place_quotes(cancels.self,
                        ~has_equivalent_bid /\ qty[1] > 0 /\ bid_price > 0, qty[1], bid_price,
                        ~has_equivalent_ask /\ qty[2] > 0 /\ ask_price > 0, qty[2], ask_price)
       IN [intents |-> cancels.intents \o places.intents,
           self |-> [places.self EXCEPT !.last_mid_price = Some(mid_price)]]

\* returns <<bid_price, ask_price>>
\* mutant: the whole fee is charged on the ask side
MM_calculate_provide_prices_fee_on_ask(self, mid_price) ==
    LET half_spread == (self.spread_size * PriceScale) \div 2
        total_fee_per_share == (2 * self.fee_rate * mid_price) \div 100
        bid_price == mid_price - half_spread
        ask_price == mid_price + half_spread + total_fee_per_share
    IN <<MM_floor_price(bid_price), MM_floor_price(ask_price)>>

MM_calculate_provide_prices(self, mid_price) ==
    LET half_spread == (self.spread_size * PriceScale) \div 2
        total_fee_per_share == (2 * self.fee_rate * mid_price) \div 100
        bid_price == mid_price - half_spread - total_fee_per_share \div 2
        ask_price == mid_price + half_spread + total_fee_per_share \div 2
    IN <<MM_floor_price(bid_price), MM_floor_price(ask_price)>>

\* mutant: past the wait window every decide refreshes
MM_should_refresh_quotes_eager(self, current_mid_price) ==
    ~(/\ ~IsNone(self.last_quote_global_tick)
      /\ self.current_global_tick - Val(self.last_quote_global_tick) < self.wait_time)

MM_should_refresh_quotes(self, current_mid_price) ==
    IF /\ ~IsNone(self.last_quote_global_tick)
       /\ self.current_global_tick - Val(self.last_quote_global_tick) < self.wait_time
    THEN FALSE
    ELSE IF IsNone(self.last_quote_global_tick) THEN TRUE
    ELSE IF self.order_filled_this_tick THEN TRUE
    ELSE IF self.layer_changed THEN TRUE
    ELSE IF /\ ~IsNone(self.last_mid_price)
            /\ Val(self.last_mid_price) > 0
            /\ 2 * Abs(current_mid_price - Val(self.last_mid_price))
                   > self.spread_size * PriceScale
    THEN TRUE
    ELSE LET has_working_bid ==
                 \E i \in 1..Len(self.active_bids) : MM_is_working(self.active_bids[i])
             has_working_ask ==
                 \E i \in 1..Len(self.active_asks) : MM_is_working(self.active_asks[i])
         IN ~has_working_bid \/ ~has_working_ask

\* market_maker.py lines 364-401: the refresh check, the selective cancel and
\* the two quotes; self is the instance after _estimate_price
MM_provide_quotes(self, account, mid_price, bid_price, ask_price) ==
    IF ~MM_should_refresh_quotes(self, mid_price)
    THEN [intents |-> <<>>, self |-> self]
    ELSE
    LET cancels == MM_cancel_non_equivalent_orders(self, bid_price, ask_price)
        has_equivalent_bid == MM_has_equivalent_working_order(self, BUY, bid_price)
        has_equivalent_ask == MM_has_equivalent_working_order(self, SELL, ask_price)
        bid_quantity == MM_validate_bid_quantity(self, account, self.order_size)
        ask_quantity == MM_validate_ask_quantity(self, account, self.order_size)
        places == MM_place_quotes(cancels.self,
                     ~has_equivalent_bid /\ bid_quantity > 0, bid_quantity, bid_price,
                     ~has_equivalent_ask /\ ask_quantity > 0, ask_quantity, ask_price)
        out == cancels.intents \o places.intents
    IN [intents |-> out,
        self |-> IF out # <<>>
                 THEN [places.self EXCEPT
                          !.last_quote_global_tick = Some(self.current_global_tick),
                          !.last_mid_price = Some(mid_price)]
                 ELSE places.self]

\* mutant: no wash-trade guard
MM_provide_layer_unguarded(self, account, v) ==
    LET est == MM_estimate_price(self, v) IN
    IF IsNone(est.price) THEN [intents |-> <<>>, self |-> est.self]
    ELSE
    LET mid_price == Val(est.price)
        prices == MM_calculate_provide_prices(est.self, mid_price)
    IN MM_provide_quotes(est.self, account, mid_price, prices[1], prices[2])

MM_provide_layer(self, account, v) ==
    LET est == MM_estimate_price(self, v) IN
    IF IsNone(est.price) THEN [intents |-> <<>>, self |-> est.self]
    ELSE
    LET mid_price == Val(est.price)
        prices == MM_calculate_provide_prices(est.self, mid_price)
    IN IF prices[1] >= prices[2] THEN [intents |-> <<>>, self |-> est.self]
       ELSE MM_provide_quotes(est.self, account, mid_price, prices[1], prices[2])

\* returns [intents, self]
\* mutant: the price of the view is recorded before the layer is selected
MM_decide_price_first(self, account, v) ==
    LET seen == MM_estimate_price(self, v).self
        current_layer == MM_determine_current_layer(seen, account)
        new_ratio == MM_calculate_inventory_ratio(seen, account)
        crossed_target ==
            /\ ~IsNone(seen.last_inventory_ratio)
            /\ CmpPct(Val(seen.last_inventory_ratio), seen.target_inventory_fraction)
                 * CmpPct(new_ratio, seen.target_inventory_fraction) < 0
        s1 == [seen EXCEPT
                  !.current_micro_tick = v.micro_tick,
                  !.current_global_tick =
                      v.macro_tick * seen.simulation_micro_tick + v.micro_tick,
                  !.layer_changed = (seen.last_layer # current_layer) \/ crossed_target,
                  !.last_layer = current_layer,
                  !.last_inventory_ratio = Some(new_ratio)]
    IN IF current_layer = "SURVIVE" THEN MM_survive_layer(s1, account, v)
       ELSE IF current_layer = "STABILIZE" THEN MM_stabilize_layer(s1, account, v)
       ELSE MM_provide_layer(s1, account, v)

MM_decide(self, account, v) ==
    LET current_layer == MM_determine_current_layer(self, account)
        new_ratio == MM_calculate_inventory_ratio(self, account)
        crossed_target ==
            /\ ~IsNone(self.last_inventory_ratio)
            /\ CmpPct(Val(self.last_inventory_ratio), self.target_inventory_fraction)
                 * CmpPct(new_ratio, self.target_inventory_fraction) < 0
        s1 == [self EXCEPT
                  !.current_micro_tick = v.micro_tick,
                  !.current_global_tick =
                      v.macro_tick * self.simulation_micro_tick + v.micro_tick,
                  !.layer_changed = (self.last_layer # current_layer) \/ crossed_target,
                  !.last_layer = current_layer,
                  !.last_inventory_ratio = Some(new_ratio)]
    IN IF current_layer = "SURVIVE" THEN MM_survive_layer(s1, account, v)
       ELSE IF current_layer = "STABILIZE" THEN MM_stabilize_layer(s1, account, v)
       ELSE MM_provide_layer(s1, account, v)


\* cache[order_view.order_id] = order_view on an insertion-ordered dict, kept
\* as the sequence of its values
PutOrder(cache, order_view) ==
    IF \E i \in 1..Len(cache) : cache[i].order_id = order_view.order_id
    THEN [i \in 1..Len(cache) |->
             IF cache[i].order_id = order_view.order_id THEN order_view ELSE cache[i]]
    ELSE Append(cache, order_view)

\* results[intent_id] = result on an insertion-ordered dict, kept as the
\* sequence of its items [intent_id, result]
\* mutant: a None result leaves no entry
PutResult_drop_none(results, intent_id, result) ==
    IF IsNone(result) THEN results
    ELSE IF \E i \in 1..Len(results) : results[i].intent_id = intent_id
    THEN [i \in 1..Len(results) |->
             IF results[i].intent_id = intent_id
             THEN [intent_id |-> intent_id, result |-> result] ELSE results[i]]
    ELSE Append(results, [intent_id |-> intent_id, result |-> result])

PutResult(results, intent_id, result) ==
    LET item == [intent_id |-> intent_id, result |-> result] IN
    IF \E i \in 1..Len(results) : results[i].intent_id = intent_id
    THEN [i \in 1..Len(results) |->
             IF results[i].intent_id = intent_id THEN item ELSE results[i]]
    ELSE Append(results, item)

MM_cleanup_done_orders(self) ==
    LET NotDone(o) == o.lifecycle # DONE
        Filled(orders) ==
            \E i \in 1..Len(orders) :
                orders[i].lifecycle = DONE /\ orders[i].end_reason = Some(FILLED)
    IN [self EXCEPT
           !.order_filled_this_tick =
               self.order_filled_this_tick \/ Filled(self.active_bids)
                                           \/ Filled(self.active_asks),
           !.active_bids = SelectSeq(self.active_bids, NotDone),
           !.active_asks = SelectSeq(self.active_asks, NotDone)]

\* mutant: a missing result evicts the oldest cached bid
RECURSIVE MM_store_results_none_evicts(_, _)
MM_store_results_none_evicts(self, order_results) ==
    IF order_results = <<>> THEN self
    ELSE LET r == Head(order_results).result
             s1 == IF IsNone(r)
                   THEN [self EXCEPT !.active_bids = IF @ = <<>> THEN @ ELSE Tail(@)]
                   ELSE IF Val(r).side = BUY
                   THEN [self EXCEPT !.active_bids = PutOrder(@, Val(r))]
                   ELSE [self EXCEPT !.active_asks = PutOrder(@, Val(r))]
         IN MM_store_results_none_evicts(s1, Tail(order_results))

RECURSIVE MM_store_results(_, _)
MM_store_results(self, order_results) ==
    IF order_results = <<>> THEN self
    ELSE LET r == Head(order_results).result
             s1 == IF IsNone(r) THEN self
                   ELSE IF Val(r).side = BUY
                   THEN [self EXCEPT !.active_bids = PutOrder(@, Val(r))]
                   ELSE [self EXCEPT !.active_asks = PutOrder(@, Val(r))]
         IN MM_store_results(s1, Tail(order_results))

MM_update(self, fb) ==
    MM_cleanup_done_orders(
        MM_store_results([self EXCEPT !.order_filled_this_tick = FALSE], fb.order_results))


-----------------------------------------------------------------------------
(***************************************************************************)
(* ValueInvestor (agents/agents/value_investor.py)                         *)
(*                                                                         *)
(* optimism is an integer number of hundredths; belief_update_rate and     *)
(* stubbornness are integer numbers of tenths, so that the step            *)
(* belief_update_rate * (1 - stubbornness) is a whole number of            *)
(* hundredths.  belief and perceived_pnl are kept in 1/(100 * PriceScale)  *)
(* currency units ("fine" units), in which they are exact.                 *)
(***************************************************************************)
Fine(price) == price * 100

VI_init(cfg, account) ==
    [initial_optimism |-> cfg.initial_optimism,
     stubbornness |-> cfg.stubbornness,
     belief_update_rate |-> cfg.belief_update_rate,
     mispricing_threshold |-> cfg.mispricing_threshold,
     max_position_fraction |-> cfg.max_position_fraction,
     deposit_affinity |-> cfg.deposit_affinity,
     deposit_allocation_fraction |-> cfg.deposit_allocation_fraction,
     deposit_horizon_preference |-> cfg.deposit_horizon_preference,
     max_order_size |-> cfg.max_order_size,
     patience_discount |-> cfg.patience_discount,
     patience_premium |-> cfg.patience_premium,
     fee_rate |-> cfg.fee_rate,
     optimism |-> cfg.initial_optimism,
     belief |-> Fine(100 * PriceScale),
     perceived_pnl |-> 0,
     initial_capital |-> Fine(account.cash * PriceScale + account.shares * 100 * PriceScale),
     current_intention |-> "WAIT",
     active_deposits |-> <<>>,
     pending_orders |-> <<>>,
     last_known_price |-> None,
     intent_id |-> 0]

VI_intent_id(c) == [value |-> c, counter |-> c + 1]

\* returns [price, self]
VI_estimate_market_price(self, v) ==
    LET md == v.market_data_view IN
    IF ~IsNone(md.mid_price)
    THEN [price |-> md.mid_price, self |-> [self EXCEPT !.last_known_price = md.mid_price]]
    ELSE IF ~IsNone(md.last_traded_price)
    THEN [price |-> md.last_traded_price,
          self |-> [self EXCEPT !.last_known_price = md.last_traded_price]]
    ELSE [price |-> self.last_known_price, self |-> self]

\* mutant: the step is taken without the min / max
VI_update_optimism_unclamped(self) ==
    LET delta == self.belief_update_rate * (10 - self.stubbornness) IN
    IF self.perceived_pnl > 0
    THEN [self EXCEPT !.optimism = self.optimism + delta]
    ELSE IF self.perceived_pnl < 0
    THEN [self EXCEPT !.optimism = self.optimism - delta]
    ELSE self

VI_update_optimism(self) ==
    LET delta == self.belief_update_rate * (10 - self.stubbornness) IN
    IF self.perceived_pnl > 0
    THEN [self EXCEPT !.optimism = Min(100, self.optimism + delta)]
    ELSE IF self.perceived_pnl < 0
    THEN [self EXCEPT !.optimism = Max(0, self.optimism - delta)]
    ELSE self

VI_update_perceived_pnl(self, account, v) ==
    LET est == VI_estimate_market_price(self, v)
        market_price == IF IsNone(est.price) THEN self.belief ELSE Fine(Val(est.price))
        portfolio_value == Fine(account.cash * PriceScale) + account.shares * market_price
    IN [est.self EXCEPT !.perceived_pnl = portfolio_value - self.initial_capital]

\* mutant: the belief is computed after the optimism has moved
VI_update_beliefs_optimism_first(self, account, v) ==
    LET tv == Val(v.economy_insight_view).tv_interval
        s1 == VI_update_optimism(self)
        s2 == [s1 EXCEPT !.belief = Fine(tv[1]) + s1.optimism * (tv[2] - tv[1])]
    IN VI_update_perceived_pnl(s2, account, v)

VI_update_beliefs(self, account, v) ==
    LET tv == Val(v.economy_insight_view).tv_interval
        s1 == [self EXCEPT !.belief = Fine(tv[1]) + self.optimism * (tv[2] - tv[1])]
    IN VI_update_perceived_pnl(VI_update_optimism(s1), account, v)

\* returns [mispricing, self]; mispricing is the exact pair [n, d] = n / d
VI_calculate_mispricing(self, v) ==
    LET est == VI_estimate_market_price(self, v) IN
    IF IsNone(est.price) \/ Val(est.price) <= 0
    THEN [mispricing |-> [n |-> 0, d |-> 1], self |-> est.self]
    ELSE [mispricing |-> [n |-> self.belief - Fine(Val(est.price)), d |-> self.belief],
          self |-> est.self]

\* the pair [n, d] = n / d
VI_calculate_position_fraction(self, account) ==
    IF IsNone(self.last_known_price) THEN [n |-> 0, d |-> 1]
    ELSE LET total_capital == account.cash * PriceScale
                              + account.shares * Val(self.last_known_price)
         IN IF total_capital <= 0 THEN [n |-> 0, d |-> 1]
            ELSE [n |-> account.shares * Val(self.last_known_price), d |-> total_capital]

\* deposit_rates is the dict as the sequence of its items [term, rate], rate
\* in hundredths.  score * 10000 * max_term of an item:
VI_deposit_score(self, item, max_term) ==
    item.rate * 100 * max_term - (100 - self.deposit_horizon_preference) * item.term * 100

\* the scan "if score > best_score": index of the first item of maximal score
VI_best_deposit_index(self, deposit_rates, max_term) ==
    CHOOSE i \in 1..Len(deposit_rates) :
        /\ \A j \in 1..Len(deposit_rates) :
              VI_deposit_score(self, deposit_rates[j], max_term)
                  <= VI_deposit_score(self, deposit_rates[i], max_term)
        /\ \A j \in 1..(i - 1) :
              VI_deposit_score(self, deposit_rates[j], max_term)
                  < VI_deposit_score(self, deposit_rates[i], max_term)

\* mutant: the first offer whose rate clears the affinity is taken
VI_evaluate_deposit_opportunity_first_clearing(self, v) ==
    LET deposit_rates == Val(v.economy_insight_view).deposit_rates
        clearing == SelectSeq(deposit_rates, LAMBDA item : item.rate >= self.deposit_affinity)
    IN IF clearing = <<>> THEN None ELSE Some(clearing[1])

\* None or <<[term, rate]>>
VI_evaluate_deposit_opportunity(self, v) ==
    LET deposit_rates == Val(v.economy_insight_view).deposit_rates IN
    IF deposit_rates = <<>> THEN None
    ELSE LET terms == { deposit_rates[i].term : i \in 1..Len(deposit_rates) }
             max_term == CHOOSE t \in terms : \A u \in terms : u <= t
             best == deposit_rates[VI_best_deposit_index(self, deposit_rates, max_term)]
         IN IF best.term # 0 /\ best.rate >= self.deposit_affinity
            THEN Some(best)
            ELSE None

\* mutant: a deposit opportunity is taken before the mispricing is looked at
VI_select_intention_park_first(self, account, v) ==
    LET mis == VI_calculate_mispricing(self, v)
        s1 == mis.self
        mispricing == mis.mispricing
        position_fraction == VI_calculate_position_fraction(s1, account)
        deposit_opportunity == VI_evaluate_deposit_opportunity(s1, v)
        \* mispricing > threshold, mispricing < -threshold (belief > 0)
        above == IF mispricing.d > 0
                 THEN 100 * mispricing.n > self.mispricing_threshold * mispricing.d
                 ELSE 100 * mispricing.n < self.mispricing_threshold * mispricing.d
        below == IF mispricing.d > 0
                 THEN 100 * mispricing.n < - self.mispricing_threshold * mispricing.d
                 ELSE 100 * mispricing.n > - self.mispricing_threshold * mispricing.d
        total_wealth == account.cash * PriceScale
                        + account.shares * Val(s1.last_known_price)
    IN IF /\ ~IsNone(deposit_opportunity)
          /\ ~IsNone(s1.last_known_price)
          /\ total_wealth > 0
          /\ 10 * account.cash * PriceScale > 2 * total_wealth
       THEN [s1 EXCEPT !.current_intention = "PARK_CAPITAL"]
       ELSE IF above
               /\ 100 * position_fraction.n < self.max_position_fraction * position_fraction.d
       THEN [s1 EXCEPT !.current_intention = "ACCUMULATE"]
       ELSE IF below /\ 10 * position_fraction.n > position_fraction.d
       THEN [s1 EXCEPT !.current_intention = "DISTRIBUTE"]
       ELSE [s1 EXCEPT !.current_intention = "WAIT"]

VI_select_intention(self, account, v) ==
    LET mis == VI_calculate_mispricing(self, v)
        s1 == mis.self
        mispricing == mis.mispricing
        position_fraction == VI_calculate_position_fraction(s1, account)
        deposit_opportunity == VI_evaluate_deposit_opportunity(s1, v)
        \* mispricing > threshold, mispricing < -threshold (belief > 0)
        above == IF mispricing.d > 0
                 THEN 100 * mispricing.n > self.mispricing_threshold * mispricing.d
                 ELSE 100 * mispricing.n < self.mispricing_threshold * mispricing.d
        below == IF mispricing.d > 0
                 THEN 100 * mispricing.n < - self.mispricing_threshold * mispricing.d
                 ELSE 100 * mispricing.n > - self.mispricing_threshold * mispricing.d
        total_wealth == account.cash * PriceScale
                        + account.shares * Val(s1.last_known_price)
    IN IF above /\ 100 * position_fraction.n < self.max_position_fraction * position_fraction.d
       THEN [s1 EXCEPT !.current_intention = "ACCUMULATE"]
       ELSE IF below /\ 10 * position_fraction.n > position_fraction.d
       THEN [s1 EXCEPT !.current_intention = "DISTRIBUTE"]
       ELSE IF /\ ~IsNone(deposit_opportunity)
               /\ ~IsNone(s1.last_known_price)
               /\ total_wealth > 0
               /\ 10 * account.cash * PriceScale > 2 * total_wealth
       THEN [s1 EXCEPT !.current_intention = "PARK_CAPITAL"]
       ELSE [s1 EXCEPT !.current_intention = "WAIT"]

\* mutant: the buy is sized by max_order_size alone
VI_execute_accumulate_uncapped(self, account, v) ==
    IF account.cash <= 0 THEN [intents |-> <<>>, self |-> self]
    ELSE LET est == VI_estimate_market_price(self, v) IN
         IF IsNone(est.price) THEN [intents |-> <<>>, self |-> est.self]
         ELSE LET market_price == Val(est.price)
                  quantity == self.max_order_size
                  buy_price == (market_price * (100 - self.patience_discount)) \div 100
                  id == VI_intent_id(est.self.intent_id)
              IN IF quantity <= 0 THEN [intents |-> <<>>, self |-> est.self]
                 ELSE [intents |-> <<PlaceOrderIntent(id.value, BUY, LIMIT, quantity,
                                                      Some(buy_price))>>,
                       self |-> [est.self EXCEPT !.intent_id = id.counter]]

\* every execute returns [intents, self]
VI_execute_accumulate(self, account, v) ==
    IF account.cash <= 0 THEN [intents |-> <<>>, self |-> self]
    ELSE LET est == VI_estimate_market_price(self, v) IN
         IF IsNone(est.price) THEN [intents |-> <<>>, self |-> est.self]
         ELSE LET market_price == Val(est.price)
                  shares_affordable ==
                      IntDiv(account.cash * PriceScale * 100,
                             market_price * (100 + self.fee_rate))
                  quantity == Min(shares_affordable, self.max_order_size)
                  buy_price == (market_price * (100 - self.patience_discount)) \div 100
                  id == VI_intent_id(est.self.intent_id)
              IN IF quantity <= 0 THEN [intents |-> <<>>, self |-> est.self]
                 ELSE [intents |-> <<PlaceOrderIntent(id.value, BUY, LIMIT, quantity,
                                                      Some(buy_price))>>,
                       self |-> [est.self EXCEPT !.intent_id = id.counter]]

VI_execute_distribute(self, account, v) ==
    IF account.shares <= 0 THEN [intents |-> <<>>, self |-> self]
    ELSE LET est == VI_estimate_market_price(self, v) IN
         IF IsNone(est.price) THEN [intents |-> <<>>, self |-> est.self]
         ELSE LET market_price == Val(est.price)
                  quantity == Min(account.shares, self.max_order_size)
                  sell_price == (market_price * (100 + self.patience_premium)) \div 100
                  id == VI_intent_id(est.self.intent_id)
              IN [intents |-> <<PlaceOrderIntent(id.value, SELL, LIMIT, quantity,
                                                 Some(sell_price))>>,
                  self |-> [est.self EXCEPT !.intent_id = id.counter]]

\* deposit_amount is in 1/100 currency units
VI_execute_park_capital(self, account, v) ==
    IF account.cash <= 0 THEN [intents |-> <<>>, self |-> self]
    ELSE LET deposit_opp == VI_evaluate_deposit_opportunity(self, v) IN
         IF IsNone(deposit_opp) THEN [intents |-> <<>>, self |-> self]
         ELSE LET deposit_amount == account.cash * self.deposit_allocation_fraction
                  id == VI_intent_id(self.intent_id)
              IN IF deposit_amount <= 0 THEN [intents |-> <<>>, self |-> self]
                 ELSE [intents |-> <<CreateDepositIntent(id.value, deposit_amount,
                                                         Val(deposit_opp).term)>>,
                       self |-> [self EXCEPT !.intent_id = id.counter]]

VI_execute_intention(self, account, v) ==
    IF self.current_intention = "WAIT" THEN [intents |-> <<>>, self |-> self]
    ELSE IF self.current_intention = "ACCUMULATE" THEN VI_execute_accumulate(self, account, v)
    ELSE IF self.current_intention = "DISTRIBUTE" THEN VI_execute_distribute(self, account, v)
    ELSE IF self.current_intention = "PARK_CAPITAL"
    THEN VI_execute_park_capital(self, account, v)
    ELSE [intents |-> <<>>, self |-> self]

\* returns [intents, self]
VI_decide(self, account, v) ==
    VI_execute_intention(
        VI_select_intention(VI_update_beliefs(self, account, v), account, v), account, v)

PutDeposit(cache, deposit_view) ==
    IF \E i \in 1..Len(cache) : cache[i].deposit_id = deposit_view.deposit_id
    THEN [i \in 1..Len(cache) |->
             IF cache[i].deposit_id = deposit_view.deposit_id THEN deposit_view ELSE cache[i]]
    ELSE Append(cache, deposit_view)

RECURSIVE VI_store_deposits(_, _)
VI_store_deposits(self, deposit_results) ==
    IF deposit_results = <<>> THEN self
    ELSE LET r == Head(deposit_results).result
             s1 == IF IsNone(r) THEN self
                   ELSE [self EXCEPT !.active_deposits = PutDeposit(@, Val(r))]
         IN VI_store_deposits(s1, Tail(deposit_results))

RECURSIVE VI_store_orders(_, _)
VI_store_orders(self, order_results) ==
    IF order_results = <<>> THEN self
    ELSE LET r == Head(order_results).result
             s1 == IF IsNone(r) THEN self
                   ELSE [self EXCEPT !.pending_orders = PutOrder(@, Val(r))]
         IN VI_store_orders(s1, Tail(order_results))

VI_update(self, fb) ==
    VI_store_orders(VI_store_deposits(self, fb.deposit_results), fb.order_results)

-----------------------------------------------------------------------------
(***************************************************************************)
(* MomentumTrader (agents/agents/momentum_trader.py)                       *)
(* The momentum signal is the exact ratio [n, d].                          *)
(***************************************************************************)
MT_init(cfg) ==
    [momentum_window |-> cfg.momentum_window,
     entry_threshold |-> cfg.entry_threshold,
     exit_threshold |-> cfg.exit_threshold,
     aggressiveness |-> cfg.aggressiveness,
     max_exposure_fraction |-> cfg.max_exposure_fraction,
     directional_bias |-> cfg.directional_bias,
     liquidity_baseline |-> cfg.liquidity_baseline,
     fee_rate |-> cfg.fee_rate,
     price_history |-> <<>>,
     active_orders |-> <<>>,
     intent_id |-> 0]

MT_intent_id(c) == [value |-> c, counter |-> c + 1]

\* None or <<price>>
MT_get_current_price(v) ==
    LET md == v.market_data_view IN
    IF ~IsNone(md.last_traded_price) THEN md.last_traded_price
    ELSE IF ~IsNone(md.mid_price) THEN md.mid_price
    ELSE IF ~IsNone(md.micro_price) THEN md.micro_price
    ELSE None

\* mutant: the window never evicts
MT_update_price_history_unbounded(self, v) ==
    LET current_price == MT_get_current_price(v) IN
    IF IsNone(current_price) THEN self
    ELSE [self EXCEPT !.price_history = Append(@, Val(current_price))]

MT_update_price_history(self, v) ==
    LET current_price == MT_get_current_price(v) IN
    IF IsNone(current_price) THEN self
    ELSE LET appended == Append(self.price_history, Val(current_price))
         IN [self EXCEPT !.price_history =
                IF Len(appended) > self.momentum_window THEN Tail(appended) ELSE appended]

\* the loop over i = k .. len-1 (0-based): the sums [weighted_return, total_weight]
\* mutant: the return is taken backwards, (previous - current) / previous
RECURSIVE MT_momentum_sums_backwards(_, _)
MT_momentum_sums_backwards(history, k) ==
    IF k >= Len(history) THEN [weighted_return |-> [n |-> 0, d |-> 1], total_weight |-> 0]
    ELSE LET rest == MT_momentum_sums_backwards(history, k + 1)
             price_prev == history[k]
             price_curr == history[k + 1]
         IN IF price_prev > 0
            THEN [weighted_return |->
                      RatAdd(RatMul(Ratio(price_prev - price_curr, price_prev),
                                    [n |-> k, d |-> 1]),
                             rest.weighted_return),
                  total_weight |-> rest.total_weight + k]
            ELSE rest

RECURSIVE MT_momentum_sums(_, _)
MT_momentum_sums(history, k) ==
    IF k >= Len(history) THEN [weighted_return |-> [n |-> 0, d |-> 1], total_weight |-> 0]
    ELSE LET rest == MT_momentum_sums(history, k + 1)
             price_prev == history[k]
             price_curr == history[k + 1]
         IN IF price_prev > 0
            THEN [weighted_return |->
                      RatAdd(RatMul(Ratio(price_curr - price_prev, price_prev),
                                    [n |-> k, d |-> 1]),
                             rest.weighted_return),
                  total_weight |-> rest.total_weight + k]
            ELSE rest

MT_calculate_momentum_signal(self) ==
    IF Len(self.price_history) < 2 THEN [n |-> 0, d |-> 1]
    ELSE LET sums == MT_momentum_sums(self.price_history, 1)
         IN IF sums.total_weight > 0
            THEN RatMul(sums.weighted_return, [n |-> 1, d |-> sums.total_weight])
            ELSE [n |-> 0, d |-> 1]

MT_apply_directional_bias(self, momentum) ==
    RatAdd(momentum, PctRatio(self.directional_bias))

\* mutant: a signal at the entry threshold already enters
MT_evaluate_signal_inclusive(self, biased_momentum) ==
    IF CmpPct(biased_momentum, self.entry_threshold) >= 0 THEN "ENTER_LONG"
    ELSE IF CmpPct(biased_momentum, - self.entry_threshold) <= 0 THEN "ENTER_SHORT"
    ELSE IF CmpPct([n |-> Abs(biased_momentum.n), d |-> biased_momentum.d],
                   self.exit_threshold) < 0
    THEN "EXIT"
    ELSE "HOLD"

MT_evaluate_signal(self, biased_momentum) ==
    IF CmpPct(biased_momentum, self.entry_threshold) > 0 THEN "ENTER_LONG"
    ELSE IF CmpPct(biased_momentum, - self.entry_threshold) < 0 THEN "ENTER_SHORT"
    ELSE IF CmpPct([n |-> Abs(biased_momentum.n), d |-> biased_momentum.d],
                   self.exit_threshold) < 0
    THEN "EXIT"
    ELSE "HOLD"

\* the ratio 1 / max(0.5, min(2.0, total_liquidity / liquidity_baseline))
MT_calculate_liquidity_amplifier(self, v) ==
    LET md == v.market_data_view
        bids == IF IsNone(md.L1_bids) THEN 0 ELSE Val(md.L1_bids)[2]
        asks == IF IsNone(md.L1_asks) THEN 0 ELSE Val(md.L1_asks)[2]
        total_liquidity == bids + asks
    IN IF total_liquidity = 0 THEN [n |-> 1, d |-> 1]
       ELSE IF 2 * total_liquidity <= self.liquidity_baseline THEN [n |-> 2, d |-> 1]
       ELSE IF total_liquidity >= 2 * self.liquidity_baseline THEN [n |-> 1, d |-> 2]
       ELSE Ratio(self.liquidity_baseline, total_liquidity)

\* mutant: the shortfall is bought whatever the cash
MT_enter_long_uncapped(self, account, v) ==
    LET current_price == MT_get_current_price(v) IN
    IF IsNone(current_price) THEN [intents |-> <<>>, self |-> self]
    ELSE
    LET price == Val(current_price)
        total_wealth == account.cash * PriceScale + account.shares * price
        liquidity_amp == MT_calculate_liquidity_amplifier(self, v)
        effective_aggressiveness == RatMul(PctRatio(self.aggressiveness), liquidity_amp)
        target_value == RatMul(RatMul(Ratio(total_wealth, price),
                                      PctRatio(self.max_exposure_fraction)),
                               effective_aggressiveness)
        additional_shares == RatInt(target_value) - account.shares
        id == MT_intent_id(self.intent_id)
    IN IF additional_shares <= 0 THEN [intents |-> <<>>, self |-> self]
       ELSE [intents |-> <<PlaceOrderIntent(id.value, BUY, MARKET, additional_shares, None)>>,
             self |-> [self EXCEPT !.intent_id = id.counter]]

\* every action returns [intents, self]
MT_enter_long(self, account, v) ==
    LET current_price == MT_get_current_price(v) IN
    IF IsNone(current_price) THEN [intents |-> <<>>, self |-> self]
    ELSE
    LET price == Val(current_price)
        total_wealth == account.cash * PriceScale + account.shares * price
        liquidity_amp == MT_calculate_liquidity_amplifier(self, v)
        effective_aggressiveness == RatMul(PctRatio(self.aggressiveness), liquidity_amp)
        target_value == RatMul(RatMul(Ratio(total_wealth, price),
                                      PctRatio(self.max_exposure_fraction)),
                               effective_aggressiveness)
        target_shares == RatInt(target_value)
        additional_shares == target_shares - account.shares
        capped == IF additional_shares * price * (100 + self.fee_rate)
                       > account.cash * PriceScale * 100
                  THEN IntDiv(account.cash * PriceScale * 100, price * (100 + self.fee_rate))
                  ELSE additional_shares
        id == MT_intent_id(self.intent_id)
    IN IF additional_shares <= 0 THEN [intents |-> <<>>, self |-> self]
       ELSE IF capped <= 0 THEN [intents |-> <<>>, self |-> self]
       ELSE [intents |-> <<PlaceOrderIntent(id.value, BUY, MARKET, capped, None)>>,
             self |-> [self EXCEPT !.intent_id = id.counter]]

MT_enter_short(self, account, v) ==
    IF account.shares <= 0 THEN [intents |-> <<>>, self |-> self]
    ELSE
    LET current_price == MT_get_current_price(v) IN
    IF IsNone(current_price) THEN [intents |-> <<>>, self |-> self]
    ELSE
    LET liquidity_amp == MT_calculate_liquidity_amplifier(self, v)
        effective_aggressiveness == RatMul(PctRatio(self.aggressiveness), liquidity_amp)
        sell_quantity ==
            Min(RatInt(RatMul([n |-> account.shares, d |-> 1], effective_aggressiveness)),
                account.shares)
        id == MT_intent_id(self.intent_id)
    IN IF sell_quantity <= 0 THEN [intents |-> <<>>, self |-> self]
       ELSE [intents |-> <<PlaceOrderIntent(id.value, SELL, MARKET, sell_quantity, None)>>,
             self |-> [self EXCEPT !.intent_id = id.counter]]

MT_exit_position(self, account) ==
    LET id == MT_intent_id(self.intent_id) IN
    IF account.shares > 0
    THEN [intents |-> <<PlaceOrderIntent(id.value, SELL, MARKET, account.shares, None)>>,
          self |-> [self EXCEPT !.intent_id = id.counter]]
    ELSE [intents |-> <<>>, self |-> self]

MT_act_on_signal(self, account, signal, v) ==
    IF signal = "ENTER_LONG" THEN MT_enter_long(self, account, v)
    ELSE IF signal = "ENTER_SHORT" THEN MT_enter_short(self, account, v)
    ELSE IF signal = "EXIT" THEN MT_exit_position(self, account)
    ELSE [intents |-> <<>>, self |-> self]

\* returns [intents, self]
MT_decide(self, account, v) ==
    LET s1 == MT_update_price_history(self, v)
        momentum == MT_calculate_momentum_signal(s1)
        biased_momentum == MT_apply_directional_bias(s1, momentum)
        signal == MT_evaluate_signal(s1, biased_momentum)
    IN MT_act_on_signal(s1, account, signal, v)

MT_cleanup_done_orders(self) ==
    [self EXCEPT !.active_orders = SelectSeq(@, LAMBDA o : o.lifecycle # DONE)]

RECURSIVE MT_store_results(_, _)
MT_store_results(self, order_results) ==
    IF order_results = <<>> THEN self
    ELSE LET r == Head(order_results).result
             s1 == IF IsNone(r) THEN self
                   ELSE [self EXCEPT !.active_orders = PutOrder(@, Val(r))]
         IN MT_store_results(s1, Tail(order_results))

MT_update(self, fb) == MT_cleanup_done_orders(MT_store_results(self, fb.order_results))

-----------------------------------------------------------------------------
(***************************************************************************)
(* SimulationEngine._process_intents (simulation/core/engine.py).          *)
(* env_results[i] is what the market returned for intents[i]:              *)
(* create_order's OrderView, create_deposit's DepositView; cancel_order    *)
(* returns nothing.                                                        *)
(***************************************************************************)
RECURSIVE process_intents_loop(_, _, _, _)
process_intents_loop(its, env_results, order_results, deposit_results) ==
    IF its = <<>>
    THEN [order_results |-> order_results, deposit_results |-> deposit_results]
    ELSE LET intent == Head(its)
             ret == Head(env_results)
         IN IF intent.kind = "PlaceOrder"
            THEN process_intents_loop(Tail(its), Tail(env_results),
                     PutResult(order_results, intent.intent_id, ret),
                     deposit_results)
            ELSE IF intent.kind = "CancelOrder"
            THEN process_intents_loop(Tail(its), Tail(env_results),
                     PutResult(order_results, intent.intent_id, None),
                     deposit_results)
            ELSE IF intent.kind = "CreateDeposit"
            THEN process_intents_loop(Tail(its), Tail(env_results), order_results,
                     PutResult(deposit_results, intent.intent_id, ret))
            ELSE process_intents_loop(Tail(its), Tail(env_results),
                                      order_results, deposit_results)

process_intents(agent_id, its, env_results) ==
    LET out == process_intents_loop(its, env_results, <<>>, <<>>)
    IN [agent_id |-> agent_id,
        order_results |-> out.order_results,
        deposit_results |-> out.deposit_results]

-----------------------------------------------------------------------------
(***************************************************************************)
(* The market, as far as one agent sees it.  It owns the account and the   *)
(* orders; what it answers is not decided by this repository, so every     *)
(* answer below is a choice.                                               *)
(***************************************************************************)
NoFeedback == [agent_id |-> 0, order_results |-> <<>>, deposit_results |-> <<>>]

MarketData(mid, micro, last) ==
    [mid_price |-> mid, micro_price |-> micro, last_traded_price |-> last,
     L1_bids |-> None, L1_asks |-> None]

MarketDatas ==
    { MarketData(None, None, None),
      MarketData(Some(10 * PriceScale), None, None),
      MarketData(None, Some(12 * PriceScale), Some(10 * PriceScale)) }

EconomyInsight == [tv_interval |-> <<9 * PriceScale, 11 * PriceScale>>,
                   deposit_rates |-> <<>>]

Accounts ==
    { [cash |-> 5, shares |-> 0],
      [cash |-> 1000, shares |-> 0], [cash |-> 0, shares |-> 50],
      [cash |-> 1000, shares |-> 50], [cash |-> 1000, shares |-> 100],
      [cash |-> 1000, shares |-> 200] }

\* a market maker may also start with nothing, or with less cash and fewer
\* shares than one full quote takes
EmptyAccount == [cash |-> 0, shares |-> 0]
ThinAccount == [cash |-> 50, shares |-> 5]
\* enough shares for an ask, yet a ratio above the upper risk bound
SkewedAccount == [cash |-> 1000, shares |-> 5]

MMConfig(spread_size, fee_rate) ==
    [target_inventory_fraction |-> 50, risk_lower_bound |-> 20, risk_upper_bound |-> 80,
     stabilization_tolerance |-> 10, spread_size |-> spread_size, order_size |-> 10,
     wait_time |-> 2, skew_factor |-> 10, fee_rate |-> fee_rate,
     simulation_micro_tick |-> 2]

\* the third configuration has a zero order size
MMConfigs ==
    { MMConfig(2, 1), MMConfig(0, 0), [MMConfig(2, 1) EXCEPT !.order_size = 0] }

MM_AGENT_ID == 10000

\* a market-data snapshot with the first level of the book: (price, size, #orders)
MarketDataL1(md, bid_size, ask_size) ==
    [md EXCEPT !.L1_bids = Some(<<Val(md.last_traded_price) - PriceScale, bid_size, 1>>),
               !.L1_asks = Some(<<Val(md.last_traded_price) + PriceScale, ask_size, 1>>)]

VIConfig ==
    [initial_optimism |-> 50, stubbornness |-> 5, belief_update_rate |-> 1,
     mispricing_threshold |-> 3, max_position_fraction |-> 50, deposit_affinity |-> 5,
     deposit_allocation_fraction |-> 50, deposit_horizon_preference |-> 50,
     max_order_size |-> 10, patience_discount |-> 1, patience_premium |-> 1,
     fee_rate |-> 1]

\* what the economy shows a value investor: fair-value interval and deposit offers
VIEconomies ==
    { [tv_interval |-> <<9 * PriceScale, 11 * PriceScale>>,
       deposit_rates |-> <<[term |-> 1, rate |-> 6], [term |-> 3, rate |-> 8]>>],
      [tv_interval |-> <<90 * PriceScale, 110 * PriceScale>>,
       deposit_rates |-> <<[term |-> 1, rate |-> 6], [term |-> 3, rate |-> 8]>>],
      [tv_interval |-> <<7 * PriceScale, 9 * PriceScale>>, deposit_rates |-> <<>>] }

VIMarketDatas == MarketDatas \cup { MarketData(Some(95 * PriceScale), None, None) }

VI_AGENT_ID == 20000

MTConfig ==
    [momentum_window |-> 3, entry_threshold |-> 2, exit_threshold |-> 1,
     aggressiveness |-> 50, max_exposure_fraction |-> 50, directional_bias |-> 0,
     liquidity_baseline |-> 100, fee_rate |-> 1]

MTMarketDatas ==
    { MarketData(None, None, None),
      MarketData(None, None, Some(100 * PriceScale)),
      MarketDataL1(MarketData(None, None, Some(101 * PriceScale)), 30, 30),
      MarketDataL1(MarketData(None, None, Some(104 * PriceScale)), 200, 100) }

MT_AGENT_ID == 30000

AgentView(agent_id, macro_tick, micro_tick, md, economy) ==
    [agent_id |-> agent_id, macro_tick |-> macro_tick, micro_tick |-> micro_tick,
     market_data_view |-> md, economy_insight_view |-> economy]

NoView == AgentView(0, 0, 0, MarketData(None, None, None), None)

\* the market's answer to one intent
EnvAnswers(intent, order_id) ==
    IF intent.kind = "PlaceOrder"
    THEN { Some(OrderView(order_id, intent.side, WORKING, None, intent.price)),
           Some(OrderView(order_id, intent.side, DONE, Some(FILLED), intent.price)),
           None }
    ELSE IF intent.kind = "CreateDeposit"
    THEN { Some(DepositView(order_id, intent.amount, intent.term)), None }
    ELSE { None }

\* the sequences of answers to a list of intents; orders get fresh ids
RECURSIVE EnvAnswerSeqs(_, _)
EnvAnswerSeqs(its, order_id) ==
    IF its = <<>> THEN { <<>> }
    ELSE LET nxt == IF Head(its).kind = "CancelOrder" THEN order_id ELSE order_id + 1
         IN { <<a>> \o rest : a \in EnvAnswers(Head(its), order_id),
                              rest \in EnvAnswerSeqs(Tail(its), nxt) }

CountPlaces(its) == Len(SelectSeq(its, LAMBDA i : i.kind # "CancelOrder"))

\* the cancelled orders of a cache, as a live view shows them afterwards
Cancelled(orders, its) ==
    [k \in 1..Len(orders) |->
        IF \E j \in 1..Len(its) :
               its[j].kind = "CancelOrder" /\ its[j].order_id = orders[k].order_id
        THEN [orders[k] EXCEPT !.lifecycle = DONE, !.end_reason = Some(CANCELLED)]
        ELSE orders[k]]

\* the ways working orders of a cache may have ended since they were seen
RECURSIVE Aged(_)
Aged(orders) ==
    IF orders = <<>> THEN { <<>> }
    ELSE LET o == Head(orders)
             heads == IF o.lifecycle = WORKING
                      THEN { o, [o EXCEPT !.lifecycle = DONE, !.end_reason = Some(FILLED)] }
                      ELSE { o }
         IN { <<h>> \o t : h \in heads, t \in Aged(Tail(orders)) }


-----------------------------------------------------------------------------
(***************************************************************************)
(* SpecAgent: one agent instance driven the way the engine drives it:      *)
(* decide(view); if it returned intents, they are dispatched and           *)
(* update(feedback) follows; the market moves between two ticks.           *)
(***************************************************************************)
\* the engine's variables while a spec does not drive them
EngineIdle ==
    /\ sim = <<>>
    /\ mgr = <<>>
    /\ env = <<>>
    /\ loop = <<>>
    /\ members = <<>>
    /\ trace = <<>>
    /\ captured = None

AgentIdle ==
    /\ kind = ""
    /\ acct = <<>>
    /\ agent = <<>>
    /\ phase = ""
    /\ pre = <<>>
    /\ view = <<>>
    /\ intents = <<>>
    /\ feedback = <<>>
    /\ tick = 0
    /\ issued = None
    /\ next_order_id = 0

LastIssued(its, before) ==
    IF its = <<>> THEN before ELSE Some(its[Len(its)].intent_id)

InitAgent ==
    /\ kind \in {"MM", "VI", "MT"}
    /\ acct \in IF kind = "MM" THEN Accounts \cup { EmptyAccount, ThinAccount } ELSE Accounts
    /\ agent \in IF kind = "MM" THEN { MM_init(cfg) : cfg \in MMConfigs }
                 ELSE IF kind = "VI" THEN { VI_init(VIConfig, acct) }
                 ELSE { MT_init(MTConfig) }
    /\ phase = "idle"
    /\ pre = agent
    /\ view = NoView
    /\ intents = <<>>
    /\ feedback = NoFeedback
    /\ tick = 0
    /\ issued = None
    /\ next_order_id = 1
    /\ EngineIdle
    /\ runs = <<>>
    /\ calc = <<>>

MMDecide ==
    /\ kind = "MM"
    /\ phase = "idle"
    /\ tick < MaxTick
    /\ \E md \in MarketDatas :
          LET v == AgentView(MM_AGENT_ID, tick \div agent.simulation_micro_tick,
                             tick % agent.simulation_micro_tick, md, Some(EconomyInsight))
              out == MM_decide(agent, acct, v)
          IN /\ agent' = out.self
             /\ intents' = out.intents
             /\ view' = v
    /\ pre' = agent
    /\ phase' = "decided"
    /\ tick' = tick + 1
    /\ UNCHANGED <<kind, acct, feedback, issued, next_order_id>>
    /\ UNCHANGED <<evars, runs, calc>>

VIDecide ==
    /\ kind = "VI"
    /\ phase = "idle"
    /\ tick < MaxTick
    /\ \E md \in VIMarketDatas, economy \in VIEconomies :
          LET v == AgentView(VI_AGENT_ID, tick, 0, md, Some(economy))
              out == VI_decide(agent, acct, v)
          IN /\ agent' = out.self
             /\ intents' = out.intents
             /\ view' = v
    /\ pre' = agent
    /\ phase' = "decided"
    /\ tick' = tick + 1
    /\ UNCHANGED <<kind, acct, feedback, issued, next_order_id>>
    /\ UNCHANGED <<evars, runs, calc>>

MTDecide ==
    /\ kind = "MT"
    /\ phase = "idle"
    /\ tick < MaxTick
    /\ \E md \in MTMarketDatas :
          LET v == AgentView(MT_AGENT_ID, tick, 0, md, None)
              out == MT_decide(agent, acct, v)
          IN /\ agent' = out.self
             /\ intents' = out.intents
             /\ view' = v
    /\ pre' = agent
    /\ phase' = "decided"
    /\ tick' = tick + 1
    /\ UNCHANGED <<kind, acct, feedback, issued, next_order_id>>
    /\ UNCHANGED <<evars, runs, calc>>

\* mutant: the engine hands an empty feedback to update after an empty decide
Skip_calls_update ==
    /\ phase = "decided"
    /\ intents = <<>>
    /\ phase' = "idle"
    /\ agent' = IF kind = "MM"
                THEN MM_update(agent, process_intents(view.agent_id, <<>>, <<>>))
                ELSE agent
    /\ pre' = agent'
    /\ view' = NoView
    /\ UNCHANGED <<kind, acct, intents, feedback, tick, issued, next_order_id>>
    /\ UNCHANGED <<evars, runs, calc>>

\* engine.py: "if not intents: continue"
Skip ==
    /\ phase = "decided"
    /\ intents = <<>>
    /\ phase' = "idle"
    /\ pre' = agent
    /\ view' = NoView
    /\ UNCHANGED <<kind, acct, agent, intents, feedback, tick, issued, next_order_id>>
    /\ UNCHANGED <<evars, runs, calc>>

\* engine.py: feedback = self._process_intents(agent_id, intents)
Dispatch ==
    /\ phase = "decided"
    /\ intents # <<>>
    /\ \E answers \in EnvAnswerSeqs(intents, next_order_id), live \in BOOLEAN :
          /\ feedback' = process_intents(view.agent_id, intents, answers)
          /\ agent' = IF live /\ kind = "MM"
                      THEN [agent EXCEPT !.active_bids = Cancelled(@, intents),
                                         !.active_asks = Cancelled(@, intents)]
                      ELSE agent
    /\ next_order_id' = next_order_id + CountPlaces(intents)
    /\ phase' = "fed"
    /\ UNCHANGED <<kind, acct, pre, view, intents, tick, issued>>
    /\ UNCHANGED <<evars, runs, calc>>

MMUpdate ==
    /\ kind = "MM"
    /\ phase = "fed"
    /\ agent' = MM_update(agent, feedback)
    /\ pre' = agent'
    /\ phase' = "idle"
    /\ issued' = LastIssued(intents, issued)
    /\ intents' = <<>>
    /\ feedback' = NoFeedback
    /\ view' = NoView
    /\ UNCHANGED <<kind, acct, tick, next_order_id>>
    /\ UNCHANGED <<evars, runs, calc>>

VIUpdate ==
    /\ kind = "VI"
    /\ phase = "fed"
    /\ agent' = VI_update(agent, feedback)
    /\ pre' = agent'
    /\ phase' = "idle"
    /\ issued' = LastIssued(intents, issued)
    /\ intents' = <<>>
    /\ feedback' = NoFeedback
    /\ view' = NoView
    /\ UNCHANGED <<kind, acct, tick, next_order_id>>
    /\ UNCHANGED <<evars, runs, calc>>

MTUpdate ==
    /\ kind = "MT"
    /\ phase = "fed"
    /\ agent' = MT_update(agent, feedback)
    /\ pre' = agent'
    /\ phase' = "idle"
    /\ issued' = LastIssued(intents, issued)
    /\ intents' = <<>>
    /\ feedback' = NoFeedback
    /\ view' = NoView
    /\ UNCHANGED <<kind, acct, tick, next_order_id>>
    /\ UNCHANGED <<evars, runs, calc>>

\* the ways the market may have moved the orders an agent holds views of
AgedAgent(k, a) ==
    IF k = "MM"
    THEN { [a EXCEPT !.active_bids = bids, !.active_asks = asks] :
               bids \in Aged(a.active_bids), asks \in Aged(a.active_asks) }
    ELSE IF k = "VI"
    THEN { [a EXCEPT !.pending_orders = orders] : orders \in Aged(a.pending_orders) }
    ELSE { [a EXCEPT !.active_orders = orders] : orders \in Aged(a.active_orders) }

\* between two ticks the market fills orders and moves the account
MarketStep ==
    /\ phase = "idle"
    /\ tick < MaxTick
    /\ acct' \in Accounts
    /\ agent' \in AgedAgent(kind, agent)
    /\ pre' = agent'
    /\ UNCHANGED <<kind, phase, view, intents, feedback, tick, issued, next_order_id>>
    /\ UNCHANGED <<evars, runs, calc>>

NextAgent ==
    \/ MMDecide \/ VIDecide \/ MTDecide
    \/ Skip \/ Dispatch
    \/ MMUpdate \/ VIUpdate \/ MTUpdate
    \/ MarketStep

SpecAgent == InitAgent /\ [][NextAgent]_vars

\* A market maker that may quote again on every tick (wait_time 1) and whose
\* drift tolerance (spread_size 4) is wider than the 1.0 within which two
\* prices are equivalent: the same decide / dispatch / update cycle, started
\* from a fresh instance.
RequoteConfig == [MMConfig(4, 1) EXCEPT !.wait_time = 1]

InitRequote ==
    /\ kind = "MM"
    /\ acct \in { [cash |-> 1000, shares |-> 50], [cash |-> 1000, shares |-> 100],
                  ThinAccount, SkewedAccount }
    /\ agent = MM_init(RequoteConfig)
    /\ phase = "idle"
    /\ pre = agent
    /\ view = NoView
    /\ intents = <<>>
    /\ feedback = NoFeedback
    /\ tick = 0
    /\ issued = None
    /\ next_order_id = 1
    /\ EngineIdle
    /\ runs = <<>>
    /\ calc = <<>>

NextRequote == MMDecide \/ Skip \/ Dispatch \/ MMUpdate \/ MarketStep

SpecRequote == InitRequote /\ [][NextRequote]_vars


-----------------------------------------------------------------------------
(***************************************************************************)
(* Properties of MarketMaker.decide, read off the state right after a      *)
(* decide returned: pre is the instance as decide found it, acct the       *)
(* account it read, view its argument and intents its result.              *)
(***************************************************************************)
MMDecided == kind = "MM" /\ phase = "decided"

\* r = cash / (cash + shares * last_known_price), where it is defined
PreWealth == acct.cash * PriceScale + acct.shares * Val(pre.last_known_price)
PreRatioDefined == ~IsNone(pre.last_known_price) /\ PreWealth > 0
\* sign of r - p/100
PreRatioCmp(p) == Sign(100 * acct.cash * PriceScale - p * PreWealth)
RatioBelowLower == PreRatioDefined /\ PreRatioCmp(pre.risk_lower_bound) < 0
RatioAboveUpper == PreRatioDefined /\ PreRatioCmp(pre.risk_upper_bound) > 0

WorkingIds(orders) == { orders[i].order_id : i \in { j \in 1..Len(orders) :
                                                      orders[j].lifecycle = WORKING } }
PreWorkingIds == WorkingIds(pre.active_bids) \cup WorkingIds(pre.active_asks)

Cancels == SelectSeq(intents, LAMBDA i : i.kind = "CancelOrder")
Places == SelectSeq(intents, LAMBDA i : i.kind = "PlaceOrder")
CancelledIds == { Cancels[i].order_id : i \in 1..Len(Cancels) }

\* the first n intents are one CancelOrder for each working order of the cache
CancelsAllWorkingFirst ==
    LET n == Cardinality(PreWorkingIds) IN
    /\ Len(intents) >= n
    /\ Len(Cancels) = n
    /\ \A i \in 1..n : intents[i].kind = "CancelOrder"
    /\ CancelledIds = PreWorkingIds

\* the price estimate decide takes from its view
ViewMid == Val(MM_estimate_price(pre, view).price)
PanicAffordable ==
    (acct.cash * PriceScale * 100)
        \div ((ViewMid + 5 * pre.spread_size * PriceScale) * (100 + pre.fee_rate))

\* C1 (as stated): outside the risk bounds decide returns one CancelOrder per
\* WORKING order of the cache, then exactly one PlaceOrder, SELL below the
\* lower bound and BUY above the upper bound.
C1_Original ==
    (MMDecided /\ (RatioBelowLower \/ RatioAboveUpper)) =>
        /\ CancelsAllWorkingFirst
        /\ Len(Places) = 1
        /\ intents[Len(intents)].kind = "PlaceOrder"
        /\ intents[Len(intents)].side = IF RatioBelowLower THEN SELL ELSE BUY

\* C1 (amended): outside the risk bounds decide returns one CancelOrder per
\* WORKING order of the cache, then at most one PlaceOrder and nothing else:
\* exactly one SELL below the lower bound; above the upper bound exactly one
\* BUY when min(int(cash / ((mid + 5*spread_size) * (1 + fee_rate))),
\* 3*order_size) is positive, and no PlaceOrder otherwise.
C1_SurvivePriority ==
    (MMDecided /\ (RatioBelowLower \/ RatioAboveUpper)) =>
        LET expect_place == \/ RatioBelowLower
                            \/ Min(PanicAffordable, 3 * pre.order_size) > 0
        IN /\ CancelsAllWorkingFirst
           /\ Len(Places) = (IF expect_place THEN 1 ELSE 0)
           /\ Len(intents) = Len(Cancels) + Len(Places)
           /\ expect_place =>
                 /\ intents[Len(intents)].kind = "PlaceOrder"
                 /\ intents[Len(intents)].side = IF RatioBelowLower THEN SELL ELSE BUY

\* a SURVIVE decide that cancelled a working order and placed its one order,
\* while a DONE order of the cache was left alone
C1_Witness ==
    /\ MMDecided
    /\ RatioBelowLower \/ RatioAboveUpper
    /\ Len(Cancels) >= 1
    /\ Len(Places) = 1
    /\ \E i \in 1..Len(pre.active_bids) : pre.active_bids[i].lifecycle = DONE

\* C2: a decide that runs the STABILIZE layer cancels no order of the
\* supportive side: no ask when r < target, no bid when r > target.
C2_SupportiveSideKept ==
    (MMDecided /\ agent.last_layer = "STABILIZE" /\ PreRatioDefined) =>
        /\ PreRatioCmp(pre.target_inventory_fraction) < 0 =>
              \A i \in 1..Len(pre.active_asks) :
                  pre.active_asks[i].order_id \notin CancelledIds
        /\ PreRatioCmp(pre.target_inventory_fraction) > 0 =>
              \A i \in 1..Len(pre.active_bids) :
                  pre.active_bids[i].order_id \notin CancelledIds

\* a STABILIZE decide with too much cash that cancelled a stale ask while a
\* working bid, itself away from the new bid target, stayed
C2_Witness ==
    /\ MMDecided
    /\ agent.last_layer = "STABILIZE"
    /\ PreRatioDefined
    /\ PreRatioCmp(pre.target_inventory_fraction) > 0
    /\ Len(Cancels) >= 1
    /\ Len(Places) >= 1
    /\ Places[1].side = BUY
    /\ \E i \in 1..Len(pre.active_bids) :
          /\ pre.active_bids[i].lifecycle = WORKING
          /\ Abs(Val(pre.active_bids[i].price) - Val(Places[1].price)) > 1 * PriceScale

\* the PROVIDE quotes of the view's price: mid -/+ (spread_size/2 + fee), each
\* floored at 0.01
ProvideBid ==
    Max(PriceScale \div 100,
        ViewMid - (pre.spread_size * PriceScale) \div 2 - (pre.fee_rate * ViewMid) \div 100)
ProvideAsk ==
    Max(PriceScale \div 100,
        ViewMid + (pre.spread_size * PriceScale) \div 2 + (pre.fee_rate * ViewMid) \div 100)

\* C3: a PROVIDE decide never returns a bid PlaceOrder priced at or above the
\* ask PlaceOrder of the same call, and returns no intent at all when the
\* computed bid is at or above the computed ask.
C3_ProvideNeverCrosses ==
    (MMDecided /\ agent.last_layer = "PROVIDE") =>
        /\ \A i, j \in 1..Len(Places) :
              (Places[i].side = BUY /\ Places[j].side = SELL)
                  => Val(Places[i].price) < Val(Places[j].price)
        /\ ProvideBid >= ProvideAsk => intents = <<>>

\* a PROVIDE decide whose computed quotes touch
C3_Witness ==
    /\ MMDecided
    /\ agent.last_layer = "PROVIDE"
    /\ ProvideBid >= ProvideAsk
    /\ intents = <<>>

\* the first decide of a MarketMaker: it found the instance as __init__ left it
FirstDecide == \E cfg \in MMConfigs : pre = MM_init(cfg)

\* the account and the price of the end-to-end example: cash 1000, 50 shares,
\* and the price 10 recorded from the view's market data
ExampleInventory ==
    /\ acct = [cash |-> 1000, shares |-> 50]
    /\ agent.last_known_price = Some(10 * PriceScale)

\* spread_size / 2 + fee_rate * mid: what PROVIDE takes off the mid price for
\* the bid and adds to it for the ask
QuoteOffset == (pre.spread_size * PriceScale) \div 2 + (pre.fee_rate * ViewMid) \div 100

\* exactly two PlaceOrder intents, one BUY and one SELL, and nothing else
TwoSidedQuote ==
    /\ Len(intents) = 2
    /\ Len(Places) = 2
    /\ { Places[1].side, Places[2].side } = { BUY, SELL }

QuotedBid == Val(Places[CHOOSE i \in 1..Len(Places) : Places[i].side = BUY].price)
QuotedAsk == Val(Places[CHOOSE i \in 1..Len(Places) : Places[i].side = SELL].price)

\* C15 as stated: a MarketMaker with bounds 0.2 / 0.8, target 0.5, cash 1000,
\* 50 shares, the price 10 and no prior quotes enters PROVIDE on its first
\* decide and returns exactly two PlaceOrder intents, one BUY and one SELL,
\* with mid - bid = ask - mid.
C15_Original ==
    (MMDecided /\ FirstDecide /\ ExampleInventory) =>
        /\ agent.last_layer = "PROVIDE"
        /\ TwoSidedQuote
        /\ ViewMid - QuotedBid = QuotedAsk - ViewMid

\* C15: on its first decide that MarketMaker enters PROVIDE; when its
\* order_size is positive and spread_size / 2 + fee_rate * mid is positive
\* and leaves the bid at or above 0.01 it returns exactly two PlaceOrder intents, one BUY and one
\* SELL, with mid - bid = ask - mid; when that offset is zero the quotes
\* touch and it returns no intent.
C15_FirstQuoteSymmetric ==
    (MMDecided /\ FirstDecide /\ ExampleInventory) =>
        /\ agent.last_layer = "PROVIDE"
        /\ (/\ pre.order_size > 0
            /\ QuoteOffset > 0
            /\ ViewMid - QuoteOffset >= PriceScale \div 100) =>
              /\ TwoSidedQuote
              /\ ViewMid - QuotedBid = QuotedAsk - ViewMid
              /\ ViewMid - QuotedBid = QuoteOffset
        /\ QuoteOffset = 0 => intents = <<>>

\* the first decide of the example with a positive offset: a bid and an ask
\* on either side of the mid price 10
C15_Witness ==
    /\ MMDecided /\ FirstDecide /\ ExampleInventory
    /\ pre.order_size > 0
    /\ QuoteOffset > 0
    /\ TwoSidedQuote
    /\ QuotedBid < ViewMid /\ ViewMid < QuotedAsk

\* |r - target| > stabilization_tolerance, where r is defined
RatioOffTarget ==
    /\ PreRatioDefined
    /\ \/ PreRatioCmp(pre.target_inventory_fraction + pre.stabilization_tolerance) > 0
       \/ PreRatioCmp(pre.target_inventory_fraction - pre.stabilization_tolerance) < 0

\* C23: the layer of a decide is a function of the inventory ratio r taken
\* from the live account and the price recorded before the call: SURVIVE
\* iff r < risk_lower_bound or r > risk_upper_bound; otherwise STABILIZE iff
\* |r - target| > stabilization_tolerance; otherwise PROVIDE; r is the
\* target when no price is recorded or total wealth is <= 0, and the layer
\* is then PROVIDE.
C23_LayerByRatio ==
    MMDecided =>
        /\ agent.last_layer \in {"SURVIVE", "STABILIZE", "PROVIDE"}
        /\ agent.last_layer = "SURVIVE" <=> (RatioBelowLower \/ RatioAboveUpper)
        /\ agent.last_layer = "STABILIZE" <=>
              (~RatioBelowLower /\ ~RatioAboveUpper /\ RatioOffTarget)
        /\ agent.last_layer = "PROVIDE" <=>
              (~RatioBelowLower /\ ~RatioAboveUpper /\ ~RatioOffTarget)
        /\ ~PreRatioDefined =>
              /\ agent.last_layer = "PROVIDE"
              /\ agent.last_inventory_ratio = Some(PctRatio(pre.target_inventory_fraction))
        /\ PreRatioDefined =>
              agent.last_inventory_ratio = Some(Ratio(acct.cash * PriceScale, PreWealth))

\* a decide on a ratio inside the risk bounds and off the target by more
\* than the tolerance: cash 1000 and 50 shares at 10, r = 2/3
C23_Witness ==
    /\ MMDecided
    /\ PreRatioDefined
    /\ acct = [cash |-> 1000, shares |-> 50]
    /\ pre.last_known_price = Some(10 * PriceScale)
    /\ RatioOffTarget
    /\ agent.last_layer = "STABILIZE"

\* fewer than wait_time ticks have elapsed since the last quote
InWaitWindow ==
    /\ ~IsNone(pre.last_quote_global_tick)
    /\ agent.current_global_tick - Val(pre.last_quote_global_tick) < pre.wait_time

\* since the previous decide the layer changed or the inventory ratio crossed
\* the target (decide records both as layer_changed), or an order was filled
RefreshTrigger == agent.layer_changed \/ pre.order_filled_this_tick

\* the instance as _provide_layer hands it to _should_refresh_quotes
AtRefreshCheck ==
    [agent EXCEPT !.last_quote_global_tick = pre.last_quote_global_tick,
                  !.last_mid_price = pre.last_mid_price,
                  !.active_bids = pre.active_bids,
                  !.active_asks = pre.active_asks,
                  !.intent_id = pre.intent_id]

\* decide went into the cancel/place refresh of _provide_layer
RefreshRan ==
    /\ agent.last_layer = "PROVIDE"
    /\ ProvideBid < ProvideAsk
    /\ MM_should_refresh_quotes(AtRefreshCheck, ViewMid)

\* C16 as stated: when a MarketMaker is in PROVIDE and, since its previous
\* decide, the layer changed, the inventory ratio crossed the target or one
\* of its orders was filled, decide runs the cancel/place refresh on that
\* call even if fewer than wait_time ticks have elapsed since its last quote.
C16_Original ==
    (/\ MMDecided
     /\ agent.last_layer = "PROVIDE"
     /\ ProvideBid < ProvideAsk
     /\ RefreshTrigger
     /\ InWaitWindow) => RefreshRan

\* C16, what decide does: a PROVIDE decide that comes fewer than wait_time
\* ticks after the last quote returns no intent, whatever happened since.
C16_WaitTimeFirst ==
    (MMDecided /\ agent.last_layer = "PROVIDE" /\ InWaitWindow) =>
        /\ ~RefreshRan
        /\ intents = <<>>

\* an order was filled since the last quote, fewer than wait_time ticks ago,
\* and the PROVIDE decide leaves the book as it is
C16_Witness ==
    /\ MMDecided
    /\ agent.last_layer = "PROVIDE"
    /\ ProvideBid < ProvideAsk
    /\ pre.order_filled_this_tick
    /\ InWaitWindow
    /\ intents = <<>>

\* the PlaceOrder intents of the decide that has just returned whose
\* quantity is zero or negative
EmptyPlaces == SelectSeq(intents, LAMBDA i : i.kind = "PlaceOrder" /\ i.quantity <= 0)

\* the SURVIVE decide of a market maker holding too many shares
PanicSold ==
    /\ MMDecided
    /\ agent.last_layer = "SURVIVE"
    /\ RatioBelowLower
    /\ acct.shares > 0

\* C20 as stated: no decide of MarketMaker, ValueInvestor or MomentumTrader
\* returns a PlaceOrder intent with quantity <= 0; a computed quantity that
\* is zero or negative, a zero-sized cap included, leaves that side without
\* an order.
C20_Original == phase = "decided" => EmptyPlaces = <<>>

\* C20, what decide does: an agent whose order size is positive returns no
\* PlaceOrder with quantity <= 0; a MarketMaker whose order_size is 0
\* returns none either, but for its panic sell, which it places with
\* quantity 0.
C20_PositiveUnlessPanicSell ==
    phase = "decided" =>
        /\ (kind = "MM" /\ pre.order_size > 0) => EmptyPlaces = <<>>
        /\ kind \in {"VI", "MT"} => EmptyPlaces = <<>>
        /\ (kind = "MM" /\ pre.order_size = 0) =>
              IF PanicSold
              THEN /\ Len(Places) = 1
                   /\ Places[1].side = SELL
                   /\ Places[1].quantity = 0
              ELSE Places = <<>>

\* a market maker with order_size 0 and nothing but shares panic-sells
\* quantity 0
C20_Witness ==
    /\ PanicSold
    /\ pre.order_size = 0
    /\ Len(EmptyPlaces) = 1
    /\ EmptyPlaces[1].side = SELL

\* quantity * limit price * (1 + fee_rate) <= cash, in exact arithmetic
CoveredByCash(o) ==
    o.quantity * Val(o.price) * (100 + pre.fee_rate) <= acct.cash * PriceScale * 100

\* C24: every order a MarketMaker emits is covered by its live account at
\* decide time: each BUY PlaceOrder, of any layer, satisfies
\* quantity * limit price * (1 + fee_rate) <= cash, and each SELL PlaceOrder
\* satisfies quantity <= shares held.
C24_OrdersCovered ==
    MMDecided =>
        \A i \in 1..Len(Places) :
            /\ Places[i].side = BUY => CoveredByCash(Places[i])
            /\ Places[i].side = SELL => Places[i].quantity <= acct.shares

\* a decide whose bid was cut down to what the cash buys
C24_Witness ==
    /\ MMDecided
    /\ \E i \in 1..Len(Places) :
          /\ Places[i].side = BUY
          /\ Places[i].quantity > 0
          /\ Places[i].quantity < pre.order_size
          /\ ~CoveredByCash([Places[i] EXCEPT !.quantity = @ + 1])

\* the two quantities of _calculate_skewed_quantities before the clamp, at the
\* ratio this decide computed
PreDeviation == MM_deviation(pre, Ratio(acct.cash * PriceScale, PreWealth))
SupportiveQuantity == MM_supportive_quantity(pre, PreDeviation)
RiskQuantity == MM_risk_quantity(pre, PreDeviation)
StabilizeDecided == MMDecided /\ agent.last_layer = "STABILIZE"

\* C25: in STABILIZE the quantities are asymmetric in favour of rebalancing:
\* when r > target the bid is the supportive side (order_size times a
\* multiplier in [2.0, 3.0], truncated) and the ask is the risk side
\* (order_size times a multiplier in [0.25, 0.5], truncated); when r < target
\* the roles are swapped; before the clamp to cash and holdings the
\* supportive quantity is never smaller than the risk quantity.
C25_SupportiveSideLarger ==
    StabilizeDecided =>
        /\ PreRatioCmp(pre.target_inventory_fraction) # 0
        /\ 2 * pre.order_size <= SupportiveQuantity
        /\ SupportiveQuantity <= 3 * pre.order_size
        /\ pre.order_size \div 4 <= RiskQuantity
        /\ 2 * RiskQuantity <= pre.order_size
        /\ SupportiveQuantity >= RiskQuantity
        /\ \A i \in 1..Len(Places) :
              LET bid_side == Places[i].side = BUY
                  supportive == bid_side <=> PreRatioCmp(pre.target_inventory_fraction) > 0
                  quantity == IF supportive THEN SupportiveQuantity ELSE RiskQuantity
              IN Places[i].quantity =
                    IF bid_side THEN MM_validate_bid_quantity(agent, acct, quantity)
                    ELSE MM_validate_ask_quantity(agent, acct, quantity)

\* a STABILIZE decide with too much cash that quotes both sides unclamped:
\* the bid is more than twice the order size, the ask less than half of it
C25_Witness ==
    /\ StabilizeDecided
    /\ PreRatioCmp(pre.target_inventory_fraction) > 0
    /\ Len(Places) = 2
    /\ Places[1].side = BUY /\ Places[1].quantity = SupportiveQuantity
    /\ Places[2].side = SELL /\ Places[2].quantity = RiskQuantity
    /\ Places[1].quantity > 2 * pre.order_size
    /\ 2 * Places[2].quantity < pre.order_size

\* the target prices of a STABILIZE decide: the skewed prices, or mid -/+
\* max(1.0, spread_size / 2) when those touch
StabilizeTargets ==
    LET skewed == MM_calculate_skewed_prices(pre, Ratio(acct.cash * PriceScale, PreWealth),
                                             ViewMid)
        spread == Max(1 * PriceScale, (pre.spread_size * PriceScale) \div 2)
    IN IF skewed[1] >= skewed[2] THEN <<ViewMid - spread, ViewMid + spread>> ELSE skewed

\* decide went through a cancel/place pass of STABILIZE or PROVIDE
Requoting == StabilizeDecided \/ (MMDecided /\ RefreshRan)
TargetPrice(side) ==
    IF agent.last_layer = "STABILIZE"
    THEN (IF side = BUY THEN StabilizeTargets[1] ELSE StabilizeTargets[2])
    ELSE (IF side = BUY THEN ProvideBid ELSE ProvideAsk)
CachedOrders(side) == IF side = BUY THEN pre.active_bids ELSE pre.active_asks

\* a cached order that is WORKING and priced within 1.0 of its side's target
EquivalentToTarget(o, side) ==
    /\ o.lifecycle = WORKING
    /\ ~IsNone(o.price)
    /\ Abs(Val(o.price) - TargetPrice(side)) <= 1 * PriceScale
SideCovered(side) ==
    \E i \in 1..Len(CachedOrders(side)) : EquivalentToTarget(CachedOrders(side)[i], side)
PlacedSides == { Places[i].side : i \in 1..Len(Places) }

\* C26: in STABILIZE and in a PROVIDE refresh, a new PlaceOrder for a side is
\* emitted only if the cache holds no order on that side that is WORKING and
\* priced within 1.0 of the new target price; an existing equivalent order is
\* neither cancelled nor duplicated by that decide.
C26_EquivalentQuoteKept ==
    Requoting =>
        \A side \in {BUY, SELL} :
            /\ \A i \in 1..Len(Places) :
                  Places[i].side = side => Val(Places[i].price) = TargetPrice(side)
            /\ side \in PlacedSides => ~SideCovered(side)
            /\ \A i \in 1..Len(CachedOrders(side)) :
                  EquivalentToTarget(CachedOrders(side)[i], side)
                      => /\ CachedOrders(side)[i].order_id \notin CancelledIds
                         /\ side \notin PlacedSides

\* a PROVIDE refresh that finds its bid still working at the target and only
\* quotes the ask again
C26_Witness ==
    /\ MMDecided
    /\ RefreshRan
    /\ SideCovered(BUY)
    /\ ~SideCovered(SELL)
    /\ PlacedSides = {SELL}

\* the cached orders of a side that are WORKING and not equivalent to its target
StaleIds(side) ==
    { CachedOrders(side)[i].order_id : i \in { j \in 1..Len(CachedOrders(side)) :
          /\ CachedOrders(side)[j].lifecycle = WORKING
          /\ ~EquivalentToTarget(CachedOrders(side)[j], side) } }
\* order_size cut down to what the account covers
ValidatedQuantity(side) ==
    IF side = BUY THEN MM_validate_bid_quantity(agent, acct, pre.order_size)
    ELSE MM_validate_ask_quantity(agent, acct, pre.order_size)
CancelsPrecedePlaces ==
    \A i, j \in 1..Len(intents) :
        (intents[i].kind = "PlaceOrder" /\ intents[j].kind = "CancelOrder") => j < i

\* C27: on a PROVIDE refresh the returned intents contain a CancelOrder for
\* every cached WORKING order, on either side, that is not price-equivalent to
\* the new target of its side, all cancels precede the PlaceOrders, and a
\* PlaceOrder follows for each side that has no equivalent working order and
\* a positive validated quantity.
C27_ProvideRefreshIntents ==
    (MMDecided /\ RefreshRan) =>
        /\ CancelledIds = StaleIds(BUY) \cup StaleIds(SELL)
        /\ Len(Cancels) = Cardinality(CancelledIds)
        /\ CancelsPrecedePlaces
        /\ \A side \in {BUY, SELL} :
              side \in PlacedSides <=> (~SideCovered(side) /\ ValidatedQuantity(side) > 0)
        /\ \A i \in 1..Len(Places) :
              /\ Places[i].quantity = ValidatedQuantity(Places[i].side)
              /\ Val(Places[i].price) = TargetPrice(Places[i].side)
        /\ Len(Places) = Cardinality(PlacedSides)

\* a PROVIDE refresh that cancels a stale working ask and quotes both sides
C27_Witness ==
    /\ MMDecided
    /\ RefreshRan
    /\ StaleIds(SELL) # {}
    /\ Len(Cancels) >= 1
    /\ PlacedSides = {BUY, SELL}
    /\ intents[Len(intents)].side = SELL

\* the hypotheses of quiescence, as decide reads them
QuotedBefore == ~IsNone(pre.last_quote_global_tick)
BothSidesWorking ==
    WorkingIds(pre.active_bids) # {} /\ WorkingIds(pre.active_asks) # {}
\* |mid - last_mid| / last_mid <= spread_size / (2 * last_mid)
WithinDriftTolerance ==
    \/ IsNone(pre.last_mid_price)
    \/ 2 * Abs(ViewMid - Val(pre.last_mid_price)) <= pre.spread_size * PriceScale
NothingChanged ==
    /\ MMDecided
    /\ agent.last_layer = "PROVIDE"
    /\ QuotedBefore
    /\ BothSidesWorking
    /\ ~pre.order_filled_this_tick
    /\ ~agent.layer_changed
    /\ WithinDriftTolerance

\* the decide that follows the one whose two quotes update stored as WORKING,
\* on a view with the same price and an untouched account
QuotesJustAccepted ==
    /\ MMDecided
    /\ pre.last_quote_global_tick = Some(agent.current_global_tick - 1)
    /\ pre.last_mid_price = Some(ViewMid)
    /\ Len(pre.active_bids) = 1 /\ Len(pre.active_asks) = 1
    /\ pre.active_bids[1].lifecycle = WORKING
    /\ pre.active_asks[1].lifecycle = WORKING
    /\ pre.active_bids[1].price = Some(ProvideBid)
    /\ pre.active_asks[1].price = Some(ProvideAsk)

\* C28 as stated: if the MarketMaker has quoted before in PROVIDE, holds a
\* WORKING order on both sides, no order was filled, the layer did not change
\* and the mid price has not drifted beyond spread_size / (2 * last_mid_price)
\* since the last quote, decide returns no intents; in particular a second
\* decide on the same view right after update accepted both quotes as WORKING
\* emits nothing.
C28_Original ==
    /\ NothingChanged => intents = <<>>
    /\ QuotesJustAccepted => intents = <<>>

\* C28: PROVIDE quoting is quiescent when nothing changed (quoted before, a
\* WORKING order on both sides, no fill, no recorded layer change, drift
\* within tolerance): decide returns no intents; a decide right after both
\* quotes were accepted as WORKING, on the same price, emits nothing as long
\* as it is again in PROVIDE.
C28_QuiescentInProvide ==
    /\ NothingChanged => intents = <<>>
    /\ (QuotesJustAccepted /\ agent.last_layer = "PROVIDE") => intents = <<>>

\* a quiescent decide past the wait window, right after both quotes were
\* accepted
C28_Witness ==
    /\ NothingChanged
    /\ QuotesJustAccepted
    /\ ~InWaitWindow
    /\ intents = <<>>

-----------------------------------------------------------------------------
(***************************************************************************)
(* Properties of every agent's update: the step from phase "fed" to phase  *)
(* "idle" is one update call, agent is the instance before it and agent'   *)
(* the instance it leaves.                                                 *)
(***************************************************************************)
UpdateReturns == phase = "fed" /\ phase' = "idle"

\* the local order caches of an instance, as one sequence of order views
OrderCache(k, a) ==
    IF k = "MM" THEN a.active_bids \o a.active_asks
    ELSE IF k = "VI" THEN a.pending_orders
    ELSE a.active_orders

DoneIds(orders) == { orders[i].order_id : i \in { j \in 1..Len(orders) :
                                                   orders[j].lifecycle = DONE } }

\* update of the agent's class
update(k, self, fb) ==
    IF k = "MM" THEN MM_update(self, fb)
    ELSE IF k = "VI" THEN VI_update(self, fb)
    ELSE MT_update(self, fb)

\* a feedback without its None entries
Answered(results) == SelectSeq(results, LAMBDA r : ~IsNone(r.result))
WithoutNone(fb) ==
    [fb EXCEPT !.order_results = Answered(@), !.deposit_results = Answered(@)]

\* the feedback maps some intent id to None; it maps every one to None
HasNone(fb) == WithoutNone(fb) # fb
AllNone(fb) ==
    WithoutNone(fb).order_results = <<>> /\ WithoutNone(fb).deposit_results = <<>>

\* C18: for every agent type update accepts a feedback whose order_results
\* or deposit_results map any subset of intent ids to None, or are empty,
\* and the None entries add nothing to and remove nothing from the agent's
\* order and deposit caches: update leaves the instance it would leave on
\* the same feedback without those entries.
C18_NoneResultsIgnored ==
    phase = "fed" =>
        LET after == update(kind, agent, feedback) IN
        /\ after = update(kind, agent, WithoutNone(feedback))
        /\ AllNone(feedback) =>
              /\ OrderCache(kind, after) =
                    IF kind = "VI" THEN OrderCache(kind, agent)
                    ELSE SelectSeq(OrderCache(kind, agent), LAMBDA o : o.lifecycle # DONE)
              /\ kind = "VI" => after.active_deposits = agent.active_deposits

\* an update is about to run on a cache that holds an order, with a feedback
\* that answers one intent and maps another to None
C18_Witness ==
    /\ phase = "fed"
    /\ OrderCache(kind, agent) # <<>>
    /\ HasNone(feedback)
    /\ WithoutNone(feedback).order_results # <<>>

\* the orders the feedback reports DONE
FeedbackDoneIds ==
    { Val(feedback.order_results[i].result).order_id :
        i \in { j \in 1..Len(feedback.order_results) :
                  /\ ~IsNone(feedback.order_results[j].result)
                  /\ Val(feedback.order_results[j].result).lifecycle = DONE } }

\* C17 as stated: for MarketMaker, MomentumTrader and ValueInvestor the
\* local order cache holds no order whose lifecycle is DONE when update
\* returns.
C17_Original ==
    [][UpdateReturns => DoneIds(OrderCache(kind, agent')) = {}]_vars

\* C17, what update does: MarketMaker and MomentumTrader leave no DONE
\* order in their caches; ValueInvestor keeps every order view it is handed,
\* DONE or not.
C17_PurgeOnUpdate ==
    [][UpdateReturns =>
          /\ kind \in {"MM", "MT"} => DoneIds(OrderCache(kind, agent')) = {}
          /\ kind = "VI" =>
                DoneIds(OrderCache(kind, agent')) =
                    DoneIds(OrderCache(kind, agent)) \cup FeedbackDoneIds]_vars

\* a ValueInvestor whose last update has returned and whose cache holds the
\* order of its last decide, which the market reported DONE
C17_Witness ==
    /\ kind = "VI"
    /\ phase = "idle"
    /\ tick = MaxTick
    /\ next_order_id - 1 \in DoneIds(agent.pending_orders)

-----------------------------------------------------------------------------
(***************************************************************************)
(* Properties of every agent's decide: issued is the last intent_id the    *)
(* agent returned in any earlier decide, None when it returned none yet.   *)
(***************************************************************************)
\* C4: for MarketMaker, ValueInvestor and MomentumTrader the intent_ids of
\* the list one decide returns are strictly increasing in list order (each
\* is its predecessor plus one), and the first of them is the last
\* intent_id issued by an earlier decide plus one.
C4_IntentIdsSequential ==
    phase = "decided" =>
        /\ \A i \in 1..(Len(intents) - 1) :
              /\ intents[i].intent_id < intents[i + 1].intent_id
              /\ intents[i + 1].intent_id = intents[i].intent_id + 1
        /\ (intents # <<>> /\ ~IsNone(issued)) =>
              intents[1].intent_id = Val(issued) + 1

\* a later decide that returned several intents after ids were issued
C4_Witness ==
    /\ phase = "decided"
    /\ ~IsNone(issued)
    /\ Len(intents) >= 2

-----------------------------------------------------------------------------
(***************************************************************************)
(* Properties of ValueInvestor.decide, read off the state right after it   *)
(* returned.  Prices are in 1/PriceScale, beliefs in 1/(100 PriceScale).   *)
(***************************************************************************)
VIDecided == kind = "VI" /\ phase = "decided"
ViewEconomy == Val(view.economy_insight_view)
\* the market price decide reads: mid, else last traded, else the last known
VIPrice ==
    IF ~IsNone(view.market_data_view.mid_price) THEN view.market_data_view.mid_price
    ELSE IF ~IsNone(view.market_data_view.last_traded_price)
    THEN view.market_data_view.last_traded_price
    ELSE pre.last_known_price
\* TV_low + optimism * (TV_high - TV_low), with the optimism decide found
VIBelief ==
    100 * ViewEconomy.tv_interval[1]
        + pre.optimism * (ViewEconomy.tv_interval[2] - ViewEconomy.tv_interval[1])
VIPriced == ~IsNone(VIPrice) /\ Val(VIPrice) > 0
\* (belief - price) / belief > threshold, < -threshold (belief > 0)
MispricingAbove ==
    VIPriced /\ 100 * (VIBelief - 100 * Val(VIPrice)) > pre.mispricing_threshold * VIBelief
MispricingBelow ==
    VIPriced /\ 100 * (VIBelief - 100 * Val(VIPrice)) < - pre.mispricing_threshold * VIBelief
VIWealth == acct.cash * PriceScale + acct.shares * Val(VIPrice)
\* sign of position fraction - p/100; the fraction is 0 without price or wealth
PositionCmp(p) ==
    IF IsNone(VIPrice) \/ VIWealth <= 0 THEN Sign(- p)
    ELSE Sign(100 * acct.shares * Val(VIPrice) - p * VIWealth)

\* C13: each ValueInvestor.decide selects exactly one of the four
\* intentions, in the priority ACCUMULATE > DISTRIBUTE > PARK_CAPITAL > WAIT:
\* mispricing above the threshold with the position fraction below its cap
\* gives ACCUMULATE whatever deposits are on offer, and the intents of that
\* decide hold no sell order and no deposit.
C13_AccumulateFirst ==
    VIDecided =>
        /\ agent.current_intention \in {"ACCUMULATE", "DISTRIBUTE", "PARK_CAPITAL", "WAIT"}
        /\ (MispricingAbove /\ PositionCmp(pre.max_position_fraction) < 0) =>
              /\ agent.current_intention = "ACCUMULATE"
              /\ \A k \in 1..Len(intents) :
                    intents[k].kind = "PlaceOrder" /\ intents[k].side = BUY
        /\ (MispricingBelow /\ PositionCmp(10) > 0
              /\ ~(MispricingAbove /\ PositionCmp(pre.max_position_fraction) < 0)) =>
              agent.current_intention = "DISTRIBUTE"

\* TV interval [90, 110], optimism 0.5, price 95, threshold 0.03, deposits on
\* offer that clear the affinity: belief 100, ACCUMULATE, one BUY
C13_Witness ==
    /\ VIDecided
    /\ ViewEconomy.tv_interval = <<90 * PriceScale, 110 * PriceScale>>
    /\ pre.optimism = 50
    /\ VIPrice = Some(95 * PriceScale)
    /\ pre.mispricing_threshold = 3
    /\ agent.belief = 100 * (100 * PriceScale)
    /\ ~IsNone(VI_evaluate_deposit_opportunity(pre, view))
    /\ 10 * acct.cash * PriceScale > 2 * VIWealth
    /\ agent.current_intention = "ACCUMULATE"
    /\ Len(intents) = 1
    /\ intents[1].side = BUY

\* the deposit offers of the view, as the items [term, rate] of the dict
Offers == ViewEconomy.deposit_rates
MaxTerm ==
    LET terms == { Offers[i].term : i \in 1..Len(Offers) }
    IN CHOOSE t \in terms : \A u \in terms : u <= t
\* 100 * max_term * (rate - (1 - horizon_preference) * term / max_term)
OfferScore(i) ==
    Offers[i].rate * MaxTerm - (100 - pre.deposit_horizon_preference) * Offers[i].term
BestOffers ==
    { i \in 1..Len(Offers) : \A j \in 1..Len(Offers) : OfferScore(j) <= OfferScore(i) }
\* the scan keeps the first offer of maximal score
WinningOffer == Offers[CHOOSE i \in BestOffers : \A j \in BestOffers : i <= j]

\* C29: each ValueInvestor.decide returns at most one intent and its kind
\* matches the selected intention: ACCUMULATE yields at most one LIMIT BUY
\* priced at price * (1 - patience_discount) with quantity <= max_order_size
\* and quantity * price * (1 + fee_rate) <= cash; DISTRIBUTE yields at most
\* one LIMIT SELL priced at price * (1 + patience_premium) with quantity <=
\* min(shares, max_order_size); PARK_CAPITAL yields at most one CreateDeposit
\* of cash * deposit_allocation_fraction at the winning term; WAIT yields
\* nothing.
C29_IntentMatchesIntention ==
    VIDecided =>
        /\ Len(intents) <= 1
        /\ agent.current_intention = "WAIT" => intents = <<>>
        /\ \A k \in 1..Len(intents) :
              /\ agent.current_intention = "ACCUMULATE" =>
                    /\ intents[k].kind = "PlaceOrder"
                    /\ intents[k].side = BUY /\ intents[k].order_type = LIMIT
                    /\ intents[k].price =
                          Some((Val(VIPrice) * (100 - pre.patience_discount)) \div 100)
                    /\ intents[k].quantity <= pre.max_order_size
                    /\ intents[k].quantity * Val(VIPrice) * (100 + pre.fee_rate)
                          <= acct.cash * PriceScale * 100
              /\ agent.current_intention = "DISTRIBUTE" =>
                    /\ intents[k].kind = "PlaceOrder"
                    /\ intents[k].side = SELL /\ intents[k].order_type = LIMIT
                    /\ intents[k].price =
                          Some((Val(VIPrice) * (100 + pre.patience_premium)) \div 100)
                    /\ intents[k].quantity <= Min(acct.shares, pre.max_order_size)
              /\ agent.current_intention = "PARK_CAPITAL" =>
                    /\ intents[k].kind = "CreateDeposit"
                    /\ intents[k].amount = acct.cash * pre.deposit_allocation_fraction
                    /\ intents[k].term = WinningOffer.term

\* an ACCUMULATE decide that buys max_order_size shares below the market price
C29_Witness ==
    /\ VIDecided
    /\ agent.current_intention = "ACCUMULATE"
    /\ Len(intents) = 1
    /\ intents[1].side = BUY
    /\ intents[1].quantity = pre.max_order_size
    /\ Val(intents[1].price) < Val(VIPrice)

-----------------------------------------------------------------------------
(***************************************************************************)
(* AgentManager (simulation/core/agent_manager.py).  An agent of the       *)
(* population is [id, type]; type is "MM", "VI", "MT" or "NT".             *)
(***************************************************************************)
\* random.Random: a linear congruential generator over 0..RngModulus-1
RngModulus == 16
Random(seed) == seed % RngModulus
RngStep(state) == (5 * state + 3) % RngModulus
\* [value, rng]: one draw from 0..n-1
randbelow(rng, n) ==
    LET state == RngStep(rng) IN [value |-> (state * n) \div RngModulus, rng |-> state]

\* random.shuffle: for i from the last index down to the second,
\* j = randbelow(i + 1); x[i], x[j] = x[j], x[i]
RECURSIVE shuffle_from(_, _, _)
shuffle_from(rng, x, i) ==
    IF i < 2 THEN [list |-> x, rng |-> rng]
    ELSE LET draw == randbelow(rng, i)
             j == draw.value + 1
         IN shuffle_from(draw.rng, [x EXCEPT ![i] = x[j], ![j] = x[i]], i - 1)

shuffle(rng, x) == shuffle_from(rng, x, Len(x))

NOISE_BASE_ID == 40000

\* mutant: every type numbers its agents from the market makers' base
InitializeGroup_one_base(base, type, count) ==
    [i \in 1..count |-> [id |-> MM_AGENT_ID + (i - 1), type |-> type]]

\* the agents one _initialize_* loop builds: ids base + 0 .. base + count - 1
InitializeGroup(base, type, count) == [i \in 1..count |-> [id |-> base + (i - 1), type |-> type]]

IdsOf(group) == { group[i].id : i \in 1..Len(group) }

\* self.agents[agent_id] = agent for each agent of a group, on the
\* insertion-ordered dict kept as the sequence of its values: an id already
\* present keeps its place and takes the new agent
PutAgents(agents, group) ==
    LET Same(a) == { j \in 1..Len(group) : group[j].id = a.id }
        replaced == [i \in 1..Len(agents) |->
                        IF Same(agents[i]) = {} THEN agents[i]
                        ELSE group[CHOOSE j \in Same(agents[i]) : TRUE]]
        fresh == SelectSeq(group, LAMBDA a : \A i \in 1..Len(agents) : agents[i].id # a.id)
    IN replaced \o fresh

\* each noise trader takes agent_seed = self.rng.randint(...) at construction
RECURSIVE NoiseSeeds(_, _)
NoiseSeeds(rng, count) ==
    IF count = 0 THEN [seeds |-> <<>>, rng |-> rng]
    ELSE LET draw == randbelow(rng, RngModulus)
             rest == NoiseSeeds(draw.rng, count - 1)
         IN [seeds |-> <<Random(draw.value)>> \o rest.seeds, rng |-> rest.rng]

\* AgentManager() followed by initialize_agents(), for constant endowments
\* and parameters; counts = [mm, vi, mt, nt]
initialize_agents(seed, counts) ==
    LET mms == InitializeGroup(MM_AGENT_ID, "MM", counts.mm)
        vis == InitializeGroup(VI_AGENT_ID, "VI", counts.vi)
        mts == InitializeGroup(MT_AGENT_ID, "MT", counts.mt)
        nts == InitializeGroup(NOISE_BASE_ID, "NT", counts.nt)
        noise == NoiseSeeds(Random(seed), counts.nt)
    IN [agents |-> PutAgents(PutAgents(PutAgents(PutAgents(<<>>, mms), vis), mts), nts),
        market_makers |-> IdsOf(mms),
        value_investors |-> IdsOf(vis),
        momentum_traders |-> IdsOf(mts),
        noise_traders |-> IdsOf(nts),
        noise_rngs |-> noise.seeds,
        rng |-> noise.rng]

\* mutant: the macro order leaves the value investors out as well
macro_tick_agents_filtered(m) ==
    LET candidates == SelectSeq(m.agents, LAMBDA a : a.id \notin m.value_investors)
        shuffled == shuffle(m.rng, candidates)
    IN [agents |-> shuffled.list, mgr |-> [m EXCEPT !.rng = shuffled.rng]]

\* returns [agents, mgr]
macro_tick_agents(m) ==
    LET candidates == m.agents
        shuffled == shuffle(m.rng, candidates)
    IN [agents |-> shuffled.list, mgr |-> [m EXCEPT !.rng = shuffled.rng]]

\* mutant: the micro order keeps the value investors
micro_tick_agents_unfiltered(m) ==
    LET candidates == m.agents
        shuffled == shuffle(m.rng, candidates)
    IN [agents |-> shuffled.list, mgr |-> [m EXCEPT !.rng = shuffled.rng]]

\* returns [agents, mgr]
micro_tick_agents(m) ==
    LET candidates == SelectSeq(m.agents, LAMBDA a : a.id \notin m.value_investors)
        shuffled == shuffle(m.rng, candidates)
    IN [agents |-> shuffled.list, mgr |-> [m EXCEPT !.rng = shuffled.rng]]

Seeds == 0..3

Populations ==
    { [mm |-> 1, vi |-> 1, mt |-> 1, nt |-> 0],
      [mm |-> 1, vi |-> 1, mt |-> 0, nt |-> 1],
      [mm |-> 0, vi |-> 2, mt |-> 1, nt |-> 1] }

-----------------------------------------------------------------------------
(***************************************************************************)
(* SpecEngine: SimulationEngine.run over a population whose agents are     *)
(* taken by their interface (Agent.decide / Agent.update): a decide        *)
(* returns some list of intents numbered from the agent's own counter.     *)
(***************************************************************************)
SIMULATION_MACRO_TICK == 2
SIMULATION_MICRO_TICK == 2
MaxIntents == 3
MaxBook == 2

Event(ev, agent_id, arg) == [ev |-> ev, agent |-> agent_id, arg |-> arg]

\* Environment: what the engine reads from it and does to it
get_market_data(e) == [book |-> e.book]
get_economy_insight(e) == [economy |-> e.economy]
expire_session(e) == [e EXCEPT !.sessions_expired = (@ + 1) % 2]
\* create_order / cancel_order / create_deposit change the book
RECURSIVE EnvAfter(_, _)
EnvAfter(e, its) ==
    IF its = <<>> THEN e
    ELSE LET intent == Head(its)
             e1 == IF intent.kind = "PlaceOrder"
                   THEN [e EXCEPT !.book = Min(MaxBook, @ + 1)]
                   ELSE IF intent.kind = "CancelOrder"
                   THEN [e EXCEPT !.book = Max(0, @ - 1)]
                   ELSE e
         IN EnvAfter(e1, Tail(its))

\* SimulationRealtimeData.step_hybrid_time: [sim, running]
step_hybrid_time(sd) ==
    LET micro == sd.MICRO_TICK + 1
        s1 == IF micro >= SIMULATION_MICRO_TICK
              THEN [sd EXCEPT !.MICRO_TICK = 0, !.MACRO_TICK = @ + 1]
              ELSE [sd EXCEPT !.MICRO_TICK = micro]
    IN [sim |-> s1, running |-> s1.MACRO_TICK < SIMULATION_MACRO_TICK]

\* mutant: the macro refresh fetches the market data only
update_views_macro_market_only(sd, e) ==
    [sd EXCEPT !.MARKET_DATA_VIEW = Some(get_market_data(e))]

update_views_macro(sd, e) ==
    [sd EXCEPT !.ECONOMY_INSIGHT_VIEW = Some(get_economy_insight(e)),
               !.MARKET_DATA_VIEW = Some(get_market_data(e))]

\* mutant: the micro refresh leaves the market data of the tick before
update_views_micro_stale(sd, e) == sd

update_views_micro(sd, e) ==
    [sd EXCEPT !.MARKET_DATA_VIEW = Some(get_market_data(e))]

\* mutant: every agent is shown the economy insight
agent_loop_view_economy_for_all(a, sd) ==
    AgentView(a.id, sd.MACRO_TICK, sd.MICRO_TICK, sd.MARKET_DATA_VIEW,
              sd.ECONOMY_INSIGHT_VIEW)

\* the view _agent_loop builds for one agent
agent_loop_view(a, sd) ==
    LET economy_view == IF a.type \in {"VI", "MM"} THEN sd.ECONOMY_INSIGHT_VIEW ELSE None
    IN AgentView(a.id, sd.MACRO_TICK, sd.MICRO_TICK, sd.MARKET_DATA_VIEW, economy_view)

\* what decide may return for a counter value c: each intent takes the next id
AgentDecisions(type, c) ==
    IF c + 2 > MaxIntents THEN { <<>> }
    ELSE { <<>>, <<PlaceOrderIntent(c, BUY, MARKET, 1, None)>> }
         \cup (IF type = "MM"
               THEN { <<CancelOrderIntent(c, 1),
                        PlaceOrderIntent(c + 1, SELL, LIMIT, 1, Some(PriceScale))>> }
               ELSE {})
         \cup (IF type = "VI" THEN { <<CreateDepositIntent(c, 1, 1)>> } ELSE {})

\* mutant: the intents reach the market last first
process_intents_calls_reversed(agent_id, its) ==
    [k \in 1..Len(its) |-> Event("dispatch", agent_id, its[Len(its) + 1 - k].intent_id)]

\* the calls _process_intents makes on the environment, in order
process_intents_calls(agent_id, its) ==
    [k \in 1..Len(its) |-> Event("dispatch", agent_id, its[k].intent_id)]

NoLoop == [pc |-> "run", agents |-> <<>>, i |-> 1, view |-> NoView, intents |-> <<>>,
           feedback |-> NoFeedback]

InitEngine ==
    /\ AgentIdle
    /\ runs = <<>>
    /\ calc = <<>>
    /\ \E seed \in Seeds, counts \in Populations :
          /\ mgr = initialize_agents(seed, counts)
          /\ members = [id \in IdsOf(mgr.agents) |-> 0]
    /\ sim = [MACRO_TICK |-> 0, MICRO_TICK |-> 0,
              MARKET_DATA_VIEW |-> None, ECONOMY_INSIGHT_VIEW |-> None]
    /\ env = [book |-> 0, economy |-> 0, sessions_expired |-> 0, next_id |-> 1]
    /\ loop = NoLoop
    /\ trace = <<>>
    /\ captured = None

\* run, current_micro == 0
TickMacro ==
    /\ loop.pc = "run"
    /\ sim.MICRO_TICK = 0
    /\ LET e1 == expire_session(env)
           scheduled == macro_tick_agents(mgr)
       IN /\ env' = e1
          /\ sim' = update_views_macro(sim, e1)
          /\ mgr' = scheduled.mgr
          /\ loop' = [NoLoop EXCEPT !.pc = "loop", !.agents = scheduled.agents]
          /\ trace' = << Event("expire_session", 0, 0),
                         Event("get_economy_insight", 0, get_economy_insight(e1)),
                         Event("get_market_data", 0, get_market_data(e1)) >>
          /\ captured' = Some(get_economy_insight(e1))
    /\ UNCHANGED <<avars, members, runs, calc>>

\* run, current_micro != 0
TickMicro ==
    /\ loop.pc = "run"
    /\ sim.MICRO_TICK # 0
    /\ LET scheduled == micro_tick_agents(mgr)
       IN /\ sim' = update_views_micro(sim, env)
          /\ mgr' = scheduled.mgr
          /\ loop' = [NoLoop EXCEPT !.pc = "loop", !.agents = scheduled.agents]
          /\ trace' = << Event("get_market_data", 0, get_market_data(env)) >>
    /\ UNCHANGED <<avars, env, members, captured, runs, calc>>

\* _agent_loop: view = AgentView(...); intents = agent.decide(view)
AgentDecide ==
    /\ loop.pc = "loop"
    /\ loop.i <= Len(loop.agents)
    /\ LET a == loop.agents[loop.i]
       IN \E its \in AgentDecisions(a.type, members[a.id]) :
             /\ loop' = [loop EXCEPT !.pc = "decided", !.view = agent_loop_view(a, sim),
                                     !.intents = its]
             /\ members' = [members EXCEPT ![a.id] = @ + Len(its)]
             /\ trace' = Append(trace, Event("decide", a.id, its))
    /\ UNCHANGED <<avars, sim, mgr, env, captured, runs, calc>>

\* _agent_loop: if not intents: continue
Continue ==
    /\ loop.pc = "decided"
    /\ loop.intents = <<>>
    /\ loop' = [loop EXCEPT !.pc = "loop", !.i = @ + 1, !.view = NoView]
    /\ UNCHANGED <<avars, sim, mgr, env, members, trace, captured, runs, calc>>

\* _agent_loop: feedback = self._process_intents(agent_id, intents)
ProcessIntents ==
    /\ loop.pc = "decided"
    /\ loop.intents # <<>>
    /\ LET a == loop.agents[loop.i]
       IN \E answers \in EnvAnswerSeqs(loop.intents, env.next_id) :
             /\ loop' = [loop EXCEPT !.pc = "fed",
                                     !.feedback = process_intents(a.id, loop.intents, answers)]
             /\ trace' = trace \o process_intents_calls(a.id, loop.intents)
                               \o << Event("feedback", a.id, 0) >>
    /\ env' = [EnvAfter(env, loop.intents) EXCEPT
                  !.next_id = @ + CountPlaces(loop.intents)]
    /\ UNCHANGED <<avars, sim, mgr, members, captured, runs, calc>>

\* _agent_loop: agent.update(feedback)
AgentUpdate ==
    /\ loop.pc = "fed"
    /\ trace' = Append(trace, Event("update", loop.agents[loop.i].id, 0))
    /\ loop' = [loop EXCEPT !.pc = "loop", !.i = @ + 1, !.view = NoView,
                            !.intents = <<>>, !.feedback = NoFeedback]
    /\ UNCHANGED <<avars, sim, mgr, env, members, captured, runs, calc>>

\* run: if not SIM_REALTIME_DATA.step_hybrid_time(): break; the economy may
\* have moved by the next tick
StepTime ==
    /\ loop.pc = "loop"
    /\ loop.i > Len(loop.agents)
    /\ LET stepped == step_hybrid_time(sim)
       IN /\ sim' = stepped.sim
          /\ loop' = [loop EXCEPT !.pc = IF stepped.running THEN "run" ELSE "stopped"]
    /\ \E economy \in 0..1 : env' = [env EXCEPT !.economy = economy]
    /\ UNCHANGED <<avars, mgr, members, trace, captured, runs, calc>>

NextEngine ==
    \/ TickMacro \/ TickMicro
    \/ AgentDecide \/ Continue \/ ProcessIntents \/ AgentUpdate
    \/ StepTime

SpecEngine == InitEngine /\ [][NextEngine]_vars

-----------------------------------------------------------------------------
(***************************************************************************)
(* Properties of the engine, read off the trace of the current tick and    *)
(* the frame of _agent_loop.                                               *)
(***************************************************************************)
InTick == loop.pc \in {"loop", "decided", "fed"}
\* the tick's loop is over (the trace stays until the next tick starts)
TickDone == trace # <<>> /\ (loop.pc \in {"run", "stopped"}
                             \/ (loop.pc = "loop" /\ loop.i > Len(loop.agents)))
CurrentAgent == loop.agents[loop.i]
DecideEvents == { k \in 1..Len(trace) : trace[k].ev = "decide" }
LastDecide == trace[CHOOSE k \in DecideEvents : \A j \in DecideEvents : j <= k]
Keys(results) == { results[k].intent_id : k \in 1..Len(results) }
IntentIds(its) == { its[k].intent_id : k \in 1..Len(its) }

\* C5: the AgentFeedback _process_intents builds carries the id of the agent
\* whose decide came just before; the keys of order_results and
\* deposit_results together are exactly the intent_ids that decide returned;
\* every CancelOrder intent's key maps to None.
C5_FeedbackKeys ==
    loop.pc = "fed" =>
        LET fb == loop.feedback
            its == LastDecide.arg
        IN /\ fb.agent_id = LastDecide.agent
           /\ fb.agent_id = CurrentAgent.id
           /\ Keys(fb.order_results) \cup Keys(fb.deposit_results) = IntentIds(its)
           /\ Len(fb.order_results) + Len(fb.deposit_results) = Len(its)
           /\ \A k \in 1..Len(its) :
                 its[k].kind = "CancelOrder" =>
                     \E j \in 1..Len(fb.order_results) :
                         /\ fb.order_results[j].intent_id = its[k].intent_id
                         /\ IsNone(fb.order_results[j].result)

\* a feedback for a cancel and an order, and one for a deposit the market refused
C5_Witness ==
    /\ loop.pc = "fed"
    /\ \/ /\ Len(loop.intents) = 2
          /\ loop.intents[1].kind = "CancelOrder"
          /\ ~IsNone(loop.feedback.order_results[2].result)
       \/ /\ loop.intents[1].kind = "CreateDeposit"
          /\ IsNone(loop.feedback.deposit_results[1].result)
    /\ CurrentAgent.id # loop.agents[1].id

\* the events after the decide at k are the agent's own: its intents
\* dispatched in list order, then the feedback, then the update, then the
\* next agent's decide
ServedInOrder(k) ==
    LET its == trace[k].arg
        n == Len(its)
        a == trace[k].agent
        At(j, ev) == (k + j <= Len(trace)) =>
                         (trace[k + j].ev = ev /\ trace[k + j].agent = a)
    IN /\ \A j \in 1..n :
             /\ At(j, "dispatch")
             /\ (k + j <= Len(trace)) => trace[k + j].arg = its[j].intent_id
       /\ At(n + 1, "feedback")
       /\ At(n + 2, "update")
       /\ (k + n + 3 <= Len(trace)) => trace[k + n + 3].ev = "decide"
       /\ TickDone => k + n + 2 <= Len(trace)

\* the decides of the tick follow the scheduled order
DecidesFollowSchedule ==
    \A k \in DecideEvents :
        LET m == Cardinality({ j \in DecideEvents : j <= k })
        IN m <= Len(loop.agents) /\ trace[k].agent = loop.agents[m].id

MarketFetches == { k \in 1..Len(trace) : trace[k].ev = "get_market_data" }

\* C7: the market data of every AgentView of a tick is the one snapshot
\* fetched before the tick's first decide, whatever earlier agents of the
\* tick did to the market since.
C7_OneSnapshotPerTick ==
    (trace # <<>>) =>
        /\ Cardinality(MarketFetches) = 1
        /\ \A k \in MarketFetches, j \in DecideEvents : k < j
        /\ loop.pc = "decided" =>
              \A k \in MarketFetches : loop.view.market_data_view = Some(trace[k].arg)

\* a later agent of the tick decides on the snapshot although an earlier
\* agent's order has changed the book since
C7_Witness ==
    /\ loop.pc = "decided"
    /\ loop.i >= 2
    /\ sim.MICRO_TICK # 0
    /\ get_market_data(env) # Val(loop.view.market_data_view)
    /\ \E k \in 1..Len(trace) : trace[k].ev = "dispatch"

\* C9: no ValueInvestor is in a micro tick's order, so ValueInvestor.decide
\* is called on ticks of micro index 0 only.
C9_ValueInvestorsMacroOnly ==
    (InTick /\ sim.MICRO_TICK # 0) =>
        /\ \A k \in 1..Len(loop.agents) :
              /\ loop.agents[k].id \notin mgr.value_investors
              /\ loop.agents[k].type # "VI"
        /\ \A k \in DecideEvents : trace[k].agent \notin mgr.value_investors

\* a micro tick of a population with value investors, in which agents decided
C9_Witness ==
    /\ InTick
    /\ sim.MICRO_TICK # 0
    /\ mgr.value_investors # {}
    /\ Cardinality(DecideEvents) >= 2

\* the list holds every element of the population part exactly once
IsPermutationOf(list, part) ==
    /\ Len(list) = Len(part)
    /\ \A k \in 1..Len(part) :
          Cardinality({ j \in 1..Len(list) : list[j] = part[k] }) = 1

\* C10: a macro tick's order is a permutation of the whole population; a
\* micro tick's order is a permutation of the agents that are not
\* ValueInvestors.
C10_OrderIsPermutation ==
    InTick =>
        IF sim.MICRO_TICK = 0
        THEN IsPermutationOf(loop.agents, mgr.agents)
        ELSE IsPermutationOf(loop.agents,
                             SelectSeq(mgr.agents, LAMBDA a : a.type # "VI"))

\* a macro tick whose order moved a value investor to the front
C10_Witness ==
    /\ InTick
    /\ sim.MICRO_TICK = 0
    /\ Len(loop.agents) = 3
    /\ loop.agents # mgr.agents
    /\ loop.agents[1].type = "VI"
    /\ mgr.agents[1].type # "VI"

EventsOf(ev) == { k \in 1..Len(trace) : trace[k].ev = ev }
BeforeDecides(ks) == \A k \in ks, j \in DecideEvents : k < j

\* C11: a tick of micro index 0 calls expire_session once and fetches both
\* the economy insight and the market data before any decide of the tick; a
\* tick of micro index != 0 calls neither expire_session nor
\* get_economy_insight and fetches the market data only, so the economy
\* insight it shows is the one captured at the latest macro tick.
C11_RefreshPerTickKind ==
    InTick =>
        /\ Cardinality(EventsOf("get_market_data")) = 1
        /\ BeforeDecides(EventsOf("get_market_data"))
        /\ \A k \in EventsOf("get_market_data") :
              sim.MARKET_DATA_VIEW = Some(trace[k].arg)
        /\ IF sim.MICRO_TICK = 0
           THEN /\ Cardinality(EventsOf("expire_session")) = 1
                /\ Cardinality(EventsOf("get_economy_insight")) = 1
                /\ BeforeDecides(EventsOf("expire_session"))
                /\ BeforeDecides(EventsOf("get_economy_insight"))
                /\ \A k \in EventsOf("get_economy_insight") :
                      sim.ECONOMY_INSIGHT_VIEW = Some(trace[k].arg)
           ELSE /\ EventsOf("expire_session") = {}
                /\ EventsOf("get_economy_insight") = {}
                /\ sim.ECONOMY_INSIGHT_VIEW = captured
        /\ loop.pc = "decided" /\ CurrentAgent.type \in {"MM", "VI"} =>
              loop.view.economy_insight_view = captured

\* a market maker decides on a micro tick whose economy has moved since the
\* macro tick, and is shown the macro tick's insight
C11_Witness ==
    /\ loop.pc = "decided"
    /\ sim.MICRO_TICK # 0
    /\ CurrentAgent.type = "MM"
    /\ Some(get_economy_insight(env)) # captured
    /\ loop.view.economy_insight_view = captured

\* C12: every AgentView the engine passes carries the id of the agent it is
\* passed to, and its economy_insight_view is populated exactly for a
\* ValueInvestor or a MarketMaker; for MomentumTrader and NoiseTrader it is
\* None.
C12_ViewMatchesAgent ==
    loop.pc = "decided" =>
        /\ loop.view.agent_id = CurrentAgent.id
        /\ loop.view.agent_id = LastDecide.agent
        /\ loop.view.agent_id \in
              (IF CurrentAgent.type = "MM" THEN mgr.market_makers
               ELSE IF CurrentAgent.type = "VI" THEN mgr.value_investors
               ELSE IF CurrentAgent.type = "MT" THEN mgr.momentum_traders
               ELSE mgr.noise_traders)
        /\ ~IsNone(loop.view.economy_insight_view)
              <=> CurrentAgent.type \in {"VI", "MM"}
        /\ ~IsNone(loop.view.market_data_view)

\* a noise trader decides after a market maker of the same tick: the first
\* saw the economy insight, the second does not
C12_Witness ==
    /\ loop.pc = "decided"
    /\ CurrentAgent.type = "NT"
    /\ IsNone(loop.view.economy_insight_view)
    /\ loop.i >= 2
    /\ loop.agents[loop.i - 1].type = "MM"
    /\ ~IsNone(sim.ECONOMY_INSIGHT_VIEW)

-----------------------------------------------------------------------------
(***************************************************************************)
(* SpecTwoRuns: two runs, "A" and "B", of one population built from one    *)
(* seed.  Each run records the tick pattern it went through and the order  *)
(* every macro_tick_agents / micro_tick_agents call returned; between the  *)
(* calls the noise traders of each run draw from their generators as often *)
(* as that run's market makes them.                                        *)
(***************************************************************************)
MaxCalls == 3
MaxDraws == 2

RunNames == {"A", "B"}

NewRun(seed, counts) ==
    [mgr |-> initialize_agents(seed, counts), pattern |-> <<>>, orders |-> <<>>,
     draws |-> 0]

OrderIds(agents) == [k \in 1..Len(agents) |-> agents[k].id]

\* mutant: the noise traders are handed the manager's generator
NoiseTraderDraw_shared(run, k) ==
    [run EXCEPT !.mgr.rng = RngStep(@), !.draws = @ + 1]

\* the k-th noise trader draws from the generator it was built with:
\* agent_rng = random.Random(agent_seed)
NoiseTraderDraw(run, k) ==
    [run EXCEPT !.mgr.noise_rngs[k] = RngStep(@), !.draws = @ + 1]

InitTwoRuns ==
    /\ AgentIdle
    /\ EngineIdle
    /\ calc = <<>>
    /\ \E seed \in Seeds, counts \in Populations :
          runs = [r \in RunNames |-> NewRun(seed, counts)]

MacroCall ==
    \E r \in RunNames :
        /\ Len(runs[r].pattern) < MaxCalls
        /\ LET scheduled == macro_tick_agents(runs[r].mgr)
           IN runs' = [runs EXCEPT ![r].mgr = scheduled.mgr,
                                   ![r].pattern = Append(@, "macro"),
                                   ![r].orders = Append(@, OrderIds(scheduled.agents))]
        /\ UNCHANGED <<avars, evars, calc>>

MicroCall ==
    \E r \in RunNames :
        /\ Len(runs[r].pattern) < MaxCalls
        /\ LET scheduled == micro_tick_agents(runs[r].mgr)
           IN runs' = [runs EXCEPT ![r].mgr = scheduled.mgr,
                                   ![r].pattern = Append(@, "micro"),
                                   ![r].orders = Append(@, OrderIds(scheduled.agents))]
        /\ UNCHANGED <<avars, evars, calc>>

NoiseTraderActs ==
    \E r \in RunNames :
        /\ runs[r].draws < MaxDraws
        /\ Len(runs[r].pattern) < MaxCalls
        /\ \E k \in 1..Len(runs[r].mgr.noise_rngs) :
              runs' = [runs EXCEPT ![r] = NoiseTraderDraw(runs[r], k)]
        /\ UNCHANGED <<avars, evars, calc>>

NextTwoRuns == MacroCall \/ MicroCall \/ NoiseTraderActs

SpecTwoRuns == InitTwoRuns /\ [][NextTwoRuns]_vars

\* C8: under one seed and one population, the k-th scheduling call returns
\* the same ordered list of agent ids in both runs, for every k up to which
\* the two runs went through the same pattern of macro and micro ticks.
C8_SameSeedSameOrders ==
    \A k \in 1..Min(Len(runs["A"].orders), Len(runs["B"].orders)) :
        (SubSeq(runs["A"].pattern, 1, k) = SubSeq(runs["B"].pattern, 1, k))
            => runs["A"].orders[k] = runs["B"].orders[k]

\* two runs through the same mixed pattern whose noise traders drew
\* differently, and in which two ticks of one kind got different orders
C8_Witness ==
    /\ Len(runs["A"].pattern) = MaxCalls
    /\ runs["A"].pattern = runs["B"].pattern
    /\ \E j, k \in 1..MaxCalls :
          /\ runs["A"].pattern[j] = "macro"
          /\ runs["A"].pattern[k] = "micro"
    /\ \E j, k \in 1..MaxCalls :
          /\ runs["A"].pattern[j] = runs["A"].pattern[k]
          /\ runs["A"].orders[j] # runs["A"].orders[k]
    /\ runs["A"].mgr.noise_rngs # runs["B"].mgr.noise_rngs

-----------------------------------------------------------------------------
(***************************************************************************)
(* SpecMomentum: MomentumTrader._calculate_momentum_signal applied to      *)
(* price histories of up to MaxHistory prices.                             *)
(***************************************************************************)
MaxHistory == 3

HistoryPrices == { 0, 100 * PriceScale, 101 * PriceScale, 102 * PriceScale }

RECURSIVE Histories(_)
Histories(n) ==
    IF n = 0 THEN { <<>> }
    ELSE { Append(h, p) : h \in Histories(n - 1), p \in HistoryPrices }

InitMomentum ==
    /\ AgentIdle
    /\ EngineIdle
    /\ runs = <<>>
    /\ \E n \in 0..MaxHistory :
          \E h \in Histories(n) : calc = [price_history |-> h, momentum |-> None]

CalculateMomentum ==
    /\ IsNone(calc.momentum)
    /\ calc' = [calc EXCEPT !.momentum =
                   Some(MT_calculate_momentum_signal([price_history |-> calc.price_history]))]
    /\ UNCHANGED <<avars, evars, runs>>

NextMomentum == CalculateMomentum

SpecMomentum == InitMomentum /\ [][NextMomentum]_vars

Calculated == ~IsNone(calc.momentum)
Momentum == Val(calc.momentum)
History == calc.price_history
StrictlyIncreasing(h) == \A k \in 1..(Len(h) - 1) : h[k] < h[k + 1]
StrictlyDecreasing(h) == \A k \in 1..(Len(h) - 1) : h[k] > h[k + 1]
AllPositive(h) == \A k \in 1..Len(h) : h[k] > 0

\* C14 (as stated): the signal is > 0 on every strictly increasing history
\* of length >= 2, < 0 on every strictly decreasing positive history of
\* length >= 2, and 0 on a history of length 0 or 1.
C14_Original ==
    Calculated =>
        /\ (Len(History) >= 2 /\ StrictlyIncreasing(History)) => Momentum.n > 0
        /\ (Len(History) >= 2 /\ StrictlyDecreasing(History) /\ AllPositive(History))
              => Momentum.n < 0
        /\ Len(History) < 2 => Momentum.n = 0

\* C14 (amended): the signal is > 0 on every strictly increasing history of
\* length >= 2 whose last-but-one price is positive (so on every positive
\* one), 0 on a strictly increasing history whose last-but-one price is not
\* positive, < 0 on every strictly decreasing positive history of length
\* >= 2, and 0 on a history of length 0 or 1.
C14_MomentumSign ==
    Calculated =>
        /\ (Len(History) >= 2 /\ StrictlyIncreasing(History)) =>
              IF History[Len(History) - 1] > 0 THEN Momentum.n > 0 ELSE Momentum.n = 0
        /\ (Len(History) >= 2 /\ StrictlyDecreasing(History) /\ AllPositive(History))
              => Momentum.n < 0
        /\ Len(History) < 2 => Momentum.n = 0
        /\ Momentum.d > 0

\* the signal of [100, 101, 102] is (1/100 + 2 * 1/101) / 3 = 301/30300
C14_Witness ==
    /\ Calculated
    /\ History = <<100 * PriceScale, 101 * PriceScale, 102 * PriceScale>>
    /\ Momentum = [n |-> 301, d |-> 30300]

-----------------------------------------------------------------------------
(***************************************************************************)
(* SpecPopulation: AgentManager.initialize_agents as a function of the     *)
(* configured counts.  calc holds the counts and, once the call has        *)
(* returned, the manager it built.                                         *)
(***************************************************************************)
MaxCount == 2

\* the ids between the bases of two consecutive types
BlockWidth == VI_AGENT_ID - MM_AGENT_ID

\* the configured counts: small ones, and a market-maker count one above
\* the width of its block
ConfiguredCounts ==
    [mm : 0..MaxCount \cup { BlockWidth + 1 }, vi : 0..MaxCount,
     mt : 0..MaxCount, nt : 0..MaxCount]

InitPopulation ==
    /\ AgentIdle
    /\ EngineIdle
    /\ runs = <<>>
    /\ \E counts \in ConfiguredCounts : calc = [counts |-> counts, manager |-> None]

InitializeAgents ==
    /\ IsNone(calc.manager)
    /\ calc' = [calc EXCEPT !.manager = Some(initialize_agents(0, calc.counts))]
    /\ UNCHANGED <<avars, evars, runs>>

NextPopulation == InitializeAgents

SpecPopulation == InitPopulation /\ [][NextPopulation]_vars

Initialized == ~IsNone(calc.manager)
Manager == Val(calc.manager)
Counts == calc.counts
TotalCount == Counts.mm + Counts.vi + Counts.mt + Counts.nt

\* no two agents of the agents map share an id, the four per-type maps are
\* pairwise disjoint, and the agents map is their union, as large as the sum
\* of the configured counts
CollisionFree ==
    LET m == Manager
        ids == IdsOf(m.agents)
    IN /\ Cardinality(ids) = Len(m.agents)
       /\ m.market_makers \cap m.value_investors = {}
       /\ m.market_makers \cap m.momentum_traders = {}
       /\ m.market_makers \cap m.noise_traders = {}
       /\ m.value_investors \cap m.momentum_traders = {}
       /\ m.value_investors \cap m.noise_traders = {}
       /\ m.momentum_traders \cap m.noise_traders = {}
       /\ ids = m.market_makers \cup m.value_investors
                   \cup m.momentum_traders \cup m.noise_traders
       /\ Len(m.agents) = TotalCount

\* every type but the last stays inside its block of ids
WithinBlocks ==
    /\ Counts.mm <= BlockWidth
    /\ Counts.vi <= BlockWidth
    /\ Counts.mt <= BlockWidth

\* C19 as stated: for every configured population no two agents built by
\* initialize_agents share an id, the four per-type maps are pairwise
\* disjoint, and the agents map is their union with size equal to the sum of
\* the four configured counts.
C19_Original == Initialized => CollisionFree

\* C19, what initialize_agents does: the ids are collision-free when the
\* counts of market makers, value investors and momentum traders are each
\* at most 10000; one market maker more takes the id of the first value
\* investor, and the agents map is smaller than the sum of the counts.
C19_CollisionFreeWithinBlocks ==
    Initialized =>
        /\ WithinBlocks => CollisionFree
        /\ (Counts.mm > BlockWidth /\ Counts.vi > 0) =>
              /\ VI_AGENT_ID \in Manager.market_makers \cap Manager.value_investors
              /\ Len(Manager.agents) < TotalCount

\* a population with agents of all four types, built without a collision
C19_Witness ==
    /\ Initialized
    /\ Counts = [mm |-> MaxCount, vi |-> 1, mt |-> 1, nt |-> 1]
    /\ CollisionFree
    /\ IdsOf(Manager.agents) =
          { MM_AGENT_ID, MM_AGENT_ID + 1, VI_AGENT_ID, MT_AGENT_ID, NOISE_BASE_ID }

-----------------------------------------------------------------------------
(***************************************************************************)
(* SpecOptimism: ValueInvestor._update_optimism over a sequence of decide  *)
(* calls.  calc.self holds the attributes the method reads and writes      *)
(* (optimism in 1/100, belief_update_rate and stubbornness in 1/10),       *)
(* calc.prev the same attributes as the latest call found them.  The       *)
(* perceived P&L a decide records after the step is the market's choice.   *)
(***************************************************************************)
MaxDecides == 3

InitialOptimisms == { 0, 50, 100 }
BeliefUpdateRates == { 0, 1, 5 }
\* the last value is above 1
Stubbornnesses == { 0, 5, 10, 15 }
PerceivedPnls == { -1, 0, 1 }

InitOptimism ==
    /\ AgentIdle
    /\ EngineIdle
    /\ runs = <<>>
    /\ \E o \in InitialOptimisms, r \in BeliefUpdateRates, st \in Stubbornnesses :
          calc = [self |-> [optimism |-> o, perceived_pnl |-> 0,
                            belief_update_rate |-> r, stubbornness |-> st],
                  prev |-> None,
                  decides |-> 0]

\* _update_beliefs: _update_optimism, then _update_perceived_pnl
UpdateBeliefs ==
    /\ calc.decides < MaxDecides
    /\ \E pnl \in PerceivedPnls :
          calc' = [self |-> [VI_update_optimism(calc.self) EXCEPT !.perceived_pnl = pnl],
                   prev |-> Some(calc.self),
                   decides |-> calc.decides + 1]
    /\ UNCHANGED <<avars, evars, runs>>

NextOptimism == UpdateBeliefs

SpecOptimism == InitOptimism /\ [][NextOptimism]_vars

BeliefsUpdated == ~IsNone(calc.prev)
Optimism == calc.self.optimism
PrevOptimism == Val(calc.prev).optimism
PrevPnl == Val(calc.prev).perceived_pnl
\* belief_update_rate * (1 - stubbornness), in 1/100
OptimismStep == calc.self.belief_update_rate * (10 - calc.self.stubbornness)
Clamp01(x) == Max(0, Min(100, x))

\* the latest decide moved optimism by the step, in the direction of the
\* recorded P&L, and clamped the result to [0, 1]
SteppedAndClamped ==
    /\ Optimism = Clamp01(PrevOptimism + Sign(PrevPnl) * OptimismStep)
    /\ Optimism \in 0..100

\* C21 as stated: with initial_optimism in [0, 1] optimism stays within
\* [0, 1] after any sequence of decide calls; each decide moves it up by
\* belief_update_rate * (1 - stubbornness) when the recorded perceived P&L is
\* positive, down by as much when it is negative, leaves it when it is zero,
\* and clamps the result to [0, 1].
C21_Original ==
    /\ Optimism \in 0..100
    /\ BeliefsUpdated => SteppedAndClamped

\* C21: the same, for stubbornness at most 1 and belief_update_rate at
\* least 0; above a stubbornness of 1 the step is negative and a decide on a
\* positive P&L takes min(1, optimism + step), which can fall below 0.
C21_OptimismWithinUnit ==
    /\ (calc.self.stubbornness <= 10 /\ calc.self.belief_update_rate >= 0) =>
          /\ Optimism \in 0..100
          /\ BeliefsUpdated => SteppedAndClamped
    /\ (BeliefsUpdated /\ OptimismStep < 0 /\ PrevPnl > 0) =>
          Optimism = Min(100, PrevOptimism + OptimismStep)

\* optimism 1.0 after a gain stays 1.0: the step of 0.25 is cut by the clamp
C21_Witness ==
    /\ BeliefsUpdated
    /\ calc.self.stubbornness = 5 /\ calc.self.belief_update_rate = 5
    /\ PrevOptimism > 100 - OptimismStep
    /\ PrevPnl > 0
    /\ Optimism = 100

-----------------------------------------------------------------------------
(***************************************************************************)
(* SpecRegistration: the _initialize_* loops of AgentManager, one          *)
(* iteration at a time, against a registration callback that returns None  *)
(* for the ids of calc.refused.  calc.manager holds the maps built so far,  *)
(* the ids the callback was called with and the id a RuntimeError was      *)
(* raised for; calc.next is the position in the order of construction.     *)
(***************************************************************************)
\* initialize_agents: market makers, value investors, momentum traders,
\* noise traders
ConstructionOrder(counts) ==
    InitializeGroup(MM_AGENT_ID, "MM", counts.mm)
        \o InitializeGroup(VI_AGENT_ID, "VI", counts.vi)
        \o InitializeGroup(MT_AGENT_ID, "MT", counts.mt)
        \o InitializeGroup(NOISE_BASE_ID, "NT", counts.nt)

\* AgentManager.__init__
EmptyManager ==
    [agents |-> <<>>, market_makers |-> {}, value_investors |-> {},
     momentum_traders |-> {}, noise_traders |-> {}, registered |-> <<>>, error |-> None]

\* self.<type map>[agent_id] = agent; self.agents[agent_id] = agent
AddAgent(m, a) ==
    LET m1 == [m EXCEPT !.agents = PutAgents(@, <<a>>)] IN
    IF a.type = "MM" THEN [m1 EXCEPT !.market_makers = @ \cup { a.id }]
    ELSE IF a.type = "VI" THEN [m1 EXCEPT !.value_investors = @ \cup { a.id }]
    ELSE IF a.type = "MT" THEN [m1 EXCEPT !.momentum_traders = @ \cup { a.id }]
    ELSE [m1 EXCEPT !.noise_traders = @ \cup { a.id }]

\* mutant: the agent is built and stored before the account is looked at
register_agent_stores_first(m, a, refused) ==
    LET called == AddAgent([m EXCEPT !.registered = Append(@, a.id)], a) IN
    IF a.id \in refused THEN [called EXCEPT !.error = Some(a.id)] ELSE called

\* one iteration of an _initialize_* loop: the callback, the raise on None,
\* the construction
register_agent(m, a, refused) ==
    LET called == [m EXCEPT !.registered = Append(@, a.id)] IN
    IF a.id \in refused THEN [called EXCEPT !.error = Some(a.id)]
    ELSE AddAgent(called, a)

\* the ids the callback may refuse
RefusedIds == SUBSET { MM_AGENT_ID + 1, VI_AGENT_ID, NOISE_BASE_ID }

SmallCounts == [mm : 0..MaxCount, vi : 0..MaxCount, mt : 0..MaxCount, nt : 0..MaxCount]

InitRegistration ==
    /\ AgentIdle
    /\ EngineIdle
    /\ runs = <<>>
    /\ \E counts \in SmallCounts, refused \in RefusedIds :
          calc = [counts |-> counts, refused |-> refused,
                  manager |-> EmptyManager, next |-> 1]

RegisterNext ==
    /\ IsNone(calc.manager.error)
    /\ calc.next <= Len(ConstructionOrder(calc.counts))
    /\ calc' = [calc EXCEPT
                   !.manager = register_agent(@, ConstructionOrder(calc.counts)[calc.next],
                                              calc.refused),
                   !.next = @ + 1]
    /\ UNCHANGED <<avars, evars, runs>>

NextRegistration == RegisterNext

SpecRegistration == InitRegistration /\ [][NextRegistration]_vars

Aborted == ~IsNone(calc.manager.error)
FailedId == Val(calc.manager.error)
\* the ids of the first n agents in the order of construction
FirstIds(n) == { ConstructionOrder(calc.counts)[i].id : i \in 1..n }
TypeMaps(m) ==
    m.market_makers \cup m.value_investors \cup m.momentum_traders \cup m.noise_traders

\* C22: if the registration callback returns None for some agent during
\* initialize_agents, construction aborts with an error at that agent: the
\* failing id is in neither agents nor any per-type map, the agents built
\* are exactly those before it, and the callback is called for no agent
\* after it.
C22_AbortAtFailure ==
    LET m == calc.manager
        n == Len(m.registered)
    IN /\ Aborted =>
             /\ FailedId \in calc.refused
             /\ n >= 1
             /\ m.registered[n] = FailedId
             /\ ConstructionOrder(calc.counts)[n].id = FailedId
             /\ \A i \in 1..n : m.registered[i] = ConstructionOrder(calc.counts)[i].id
             /\ FailedId \notin IdsOf(m.agents)
             /\ FailedId \notin TypeMaps(m)
             /\ IdsOf(m.agents) = FirstIds(n - 1)
             /\ TypeMaps(m) = FirstIds(n - 1)
       /\ ~Aborted =>
             /\ \A i \in 1..n : m.registered[i] \notin calc.refused
             /\ IdsOf(m.agents) = FirstIds(n)

\* the first value investor is refused: the market makers before it are
\* built, the momentum and noise traders after it are not
C22_Witness ==
    /\ Aborted
    /\ FailedId = VI_AGENT_ID
    /\ calc.counts = [mm |-> 1, vi |-> 1, mt |-> 1, nt |-> 1]
    /\ IdsOf(calc.manager.agents) = { MM_AGENT_ID }
    /\ calc.manager.registered = <<MM_AGENT_ID, VI_AGENT_ID>>

\* initialize_agents over a callback that refuses nothing builds the maps of
\* initialize_agents
RegistrationAgrees ==
    (~Aborted /\ calc.next > Len(ConstructionOrder(calc.counts))) =>
        LET built == initialize_agents(0, calc.counts) IN
        /\ calc.manager.agents = built.agents
        /\ calc.manager.market_makers = built.market_makers
        /\ calc.manager.value_investors = built.value_investors
        /\ calc.manager.momentum_traders = built.momentum_traders
        /\ calc.manager.noise_traders = built.noise_traders


-----------------------------------------------------------------------------
(***************************************************************************)
(* ValueInvestor._select_intention on the deposit side: a value investor   *)
(* whose belief sits at or near the market price (TV interval [9, 11]),    *)
(* over deposit offers, affinities, horizon preferences and accounts.      *)
(***************************************************************************)
OfferConfigs ==
    { [VIConfig EXCEPT !.deposit_affinity = a, !.deposit_horizon_preference = h] :
          a \in { 5, 9 }, h \in { 0, 100 } }

\* cash fractions at the price 10: 1, 0, 2/3, 1/6, exactly 1/5, and no wealth
OfferAccounts ==
    { [cash |-> 1000, shares |-> 0], [cash |-> 0, shares |-> 50],
      [cash |-> 1000, shares |-> 50], [cash |-> 100, shares |-> 50],
      [cash |-> 125, shares |-> 50], EmptyAccount }

OfferLists ==
    { <<>>,
      <<[term |-> 1, rate |-> 6], [term |-> 3, rate |-> 8]>>,
      <<[term |-> 3, rate |-> 8], [term |-> 1, rate |-> 6]>>,
      <<[term |-> 1, rate |-> 4], [term |-> 3, rate |-> 8]>>,
      <<[term |-> 1, rate |-> 8], [term |-> 3, rate |-> 8]>>,
      <<[term |-> 3, rate |-> 8], [term |-> 1, rate |-> 8]>>,
      <<[term |-> 2, rate |-> 10]>> }

OfferEconomies ==
    { [tv_interval |-> <<9 * PriceScale, 11 * PriceScale>>, deposit_rates |-> offers] :
          offers \in OfferLists }

\* no price at all, the price of the belief, and a price 10% below it
OfferMarketDatas ==
    { MarketData(None, None, None), MarketData(Some(10 * PriceScale), None, None),
      MarketData(Some(9 * PriceScale), None, None) }

InitOffers ==
    /\ kind = "VI"
    /\ acct \in OfferAccounts
    /\ \E cfg \in OfferConfigs : agent = VI_init(cfg, acct)
    /\ phase = "idle"
    /\ pre = agent
    /\ view = NoView
    /\ intents = <<>>
    /\ feedback = NoFeedback
    /\ tick = 0
    /\ issued = None
    /\ next_order_id = 1
    /\ EngineIdle
    /\ runs = <<>>
    /\ calc = <<>>

VIDecideOffers ==
    /\ kind = "VI"
    /\ phase = "idle"
    /\ tick < MaxTick
    /\ \E md \in OfferMarketDatas, economy \in OfferEconomies :
          LET v == AgentView(VI_AGENT_ID, tick, 0, md, Some(economy))
              out == VI_decide(agent, acct, v)
          IN /\ agent' = out.self
             /\ intents' = out.intents
             /\ view' = v
    /\ pre' = agent
    /\ phase' = "decided"
    /\ tick' = tick + 1
    /\ UNCHANGED <<kind, acct, feedback, issued, next_order_id>>
    /\ UNCHANGED <<evars, runs, calc>>

NextOffers == VIDecideOffers \/ Skip \/ Dispatch \/ VIUpdate

SpecOffers == InitOffers /\ [][NextOffers]_vars

\* neither ACCUMULATE nor DISTRIBUTE applied at this decide
NeitherTrade ==
    VIDecided /\ agent.current_intention \notin {"ACCUMULATE", "DISTRIBUTE"}
\* the offer of maximal score has a rate that clears deposit_affinity
WinnerClears == Offers # <<>> /\ WinningOffer.rate >= pre.deposit_affinity
\* cash / (cash + shares * price) > 0.2 wherever that fraction has a value:
\* with a known price, or with no shares to price
IdleCashDefined == ~IsNone(VIPrice) \/ acct.shares = 0
IdleCashAboveFifth ==
    IF IsNone(VIPrice) THEN acct.cash > 0
    ELSE VIWealth > 0 /\ 10 * acct.cash * PriceScale > 2 * VIWealth
ParksAtWinner ==
    /\ Len(intents) = 1
    /\ intents[1].kind = "CreateDeposit"
    /\ intents[1].term = WinningOffer.term

\* C30 as stated: when neither ACCUMULATE nor DISTRIBUTE applies, the
\* ValueInvestor selects PARK_CAPITAL exactly when the offered term of maximal
\* score has a rate that clears deposit_affinity and the idle-cash fraction of
\* wealth is above 0.2, and opens the deposit at that term; otherwise WAIT;
\* for every set of offered terms and every account state.
C30_Original ==
    (NeitherTrade /\ IdleCashDefined) =>
        /\ agent.current_intention = "PARK_CAPITAL" <=> (WinnerClears /\ IdleCashAboveFifth)
        /\ agent.current_intention = "PARK_CAPITAL" => ParksAtWinner
        /\ agent.current_intention # "PARK_CAPITAL" => agent.current_intention = "WAIT"

\* C30: when neither ACCUMULATE nor DISTRIBUTE applies, the ValueInvestor
\* selects PARK_CAPITAL exactly when a market price is known, the offered term
\* of maximal score has a rate that clears deposit_affinity and the idle-cash
\* fraction of wealth at that price is above 0.2, and opens the deposit at
\* that term; otherwise the intention is WAIT and nothing is returned.
C30_ParkNeedsKnownPrice ==
    NeitherTrade =>
        /\ agent.current_intention = "PARK_CAPITAL" <=>
              (WinnerClears /\ ~IsNone(VIPrice) /\ IdleCashAboveFifth)
        /\ agent.current_intention = "PARK_CAPITAL" => ParksAtWinner
        /\ agent.current_intention # "PARK_CAPITAL" =>
              (agent.current_intention = "WAIT" /\ intents = <<>>)

\* an all-cash value investor that has never seen a price and is offered a
\* deposit that clears its affinity: it waits
C30_Witness ==
    /\ NeitherTrade
    /\ IsNone(VIPrice)
    /\ acct = [cash |-> 1000, shares |-> 0]
    /\ WinnerClears
    /\ agent.current_intention = "WAIT"
    /\ intents = <<>>


\* TV_low + optimism * (TV_high - TV_low) in the units of belief
BeliefAt(optimism) ==
    100 * ViewEconomy.tv_interval[1]
        + optimism * (ViewEconomy.tv_interval[2] - ViewEconomy.tv_interval[1])

\* C31 as stated: on each decide the belief a ValueInvestor uses to compute
\* mispricing and select its intention equals
\* TV_low + optimism * (TV_high - TV_low), where optimism is the agent's
\* optimism at the time the intention is selected.
C31_Original == VIDecided => agent.belief = BeliefAt(agent.optimism)

\* C31: the belief a decide uses is TV_low + optimism * (TV_high - TV_low)
\* with the optimism the call found; the optimism the same call then moves to
\* enters the belief of the next decide only.
C31_BeliefFromOptimismFound == VIDecided => agent.belief = BeliefAt(pre.optimism)

\* a decide that lowered the optimism after a loss and kept the belief of the
\* optimism it found
C31_Witness ==
    /\ VIDecided
    /\ pre.perceived_pnl < 0
    /\ agent.optimism < pre.optimism
    /\ agent.belief = BeliefAt(pre.optimism)
    /\ agent.belief # BeliefAt(agent.optimism)


-----------------------------------------------------------------------------
(***************************************************************************)
(* MomentumTrader.decide over short windows, biases on both sides of the   *)
(* thresholds and views that carry any of the three reference prices.      *)
(* calc keeps the two locals of the last decide: the biased momentum and   *)
(* the signal.                                                             *)
(***************************************************************************)
TraderWindows == { 1, 2 }
TraderBiases == { -3, 0, 1, 2, 3 }
\* the last two trade their whole wealth at full aggressiveness
TraderConfigs ==
    { [MTConfig EXCEPT !.momentum_window = w, !.directional_bias = b] :
          w \in TraderWindows, b \in TraderBiases }
    \cup { [MTConfig EXCEPT !.momentum_window = 1, !.directional_bias = b,
                            !.aggressiveness = 100, !.max_exposure_fraction = 100] :
               b \in { -3, 3 } }

TraderAccounts ==
    { [cash |-> 1000, shares |-> 0], [cash |-> 0, shares |-> 50],
      [cash |-> 1000, shares |-> 50], [cash |-> 5, shares |-> 1], EmptyAccount }

\* MarketData(mid, micro, last)
TraderMarketDatas ==
    { MarketData(None, None, None),
      MarketData(Some(90 * PriceScale), Some(80 * PriceScale), Some(100 * PriceScale)),
      MarketData(Some(102 * PriceScale), Some(80 * PriceScale), None),
      MarketData(None, Some(103 * PriceScale), None),
      MarketDataL1(MarketData(None, None, Some(101 * PriceScale)), 30, 30),
      MarketDataL1(MarketData(None, None, Some(104 * PriceScale)), 200, 100) }

InitTrader ==
    /\ kind = "MT"
    /\ acct \in TraderAccounts
    /\ agent \in { MT_init(cfg) : cfg \in TraderConfigs }
    /\ phase = "idle"
    /\ pre = agent
    /\ view = NoView
    /\ intents = <<>>
    /\ feedback = NoFeedback
    /\ tick = 0
    /\ issued = None
    /\ next_order_id = 1
    /\ EngineIdle
    /\ runs = <<>>
    /\ calc = <<>>

MTDecideTraced ==
    /\ kind = "MT"
    /\ phase = "idle"
    /\ tick < MaxTick
    /\ \E md \in TraderMarketDatas :
          LET v == AgentView(MT_AGENT_ID, tick, 0, md, None)
              s1 == MT_update_price_history(agent, v)
              biased_momentum ==
                  MT_apply_directional_bias(s1, MT_calculate_momentum_signal(s1))
              signal == MT_evaluate_signal(s1, biased_momentum)
              out == MT_decide(agent, acct, v)
          IN /\ agent' = out.self
             /\ intents' = out.intents
             /\ view' = v
             /\ calc' = [biased_momentum |-> biased_momentum, signal |-> signal]
    /\ pre' = agent
    /\ phase' = "decided"
    /\ tick' = tick + 1
    /\ UNCHANGED <<kind, acct, feedback, issued, next_order_id>>
    /\ UNCHANGED <<evars, runs>>

NextTrader == MTDecideTraced \/ Skip \/ Dispatch \/ MTUpdate

SpecTrader == InitTrader /\ [][NextTrader]_vars

MTDecided == kind = "MT" /\ phase = "decided"
\* the reference price of the view: last traded, else mid, else micro
ReferencePrice ==
    LET md == view.market_data_view IN
    IF ~IsNone(md.last_traded_price) THEN md.last_traded_price
    ELSE IF ~IsNone(md.mid_price) THEN md.mid_price
    ELSE md.micro_price
\* the last n entries of a sequence
LastEntries(h, n) ==
    IF Len(h) <= n THEN h ELSE SubSeq(h, Len(h) - n + 1, Len(h))

\* C32: after any sequence of MomentumTrader.decide calls the price history
\* holds at most momentum_window entries, the most recent observed reference
\* prices in arrival order (oldest evicted first); the reference price of a
\* view is last-traded if present, else mid, else micro, and a view with none
\* of the three leaves the history unchanged.
C32_SlidingWindow ==
    /\ kind = "MT" => Len(agent.price_history) <= agent.momentum_window
    /\ MTDecided =>
          agent.price_history =
              IF IsNone(ReferencePrice) THEN pre.price_history
              ELSE LastEntries(Append(pre.price_history, Val(ReferencePrice)),
                               pre.momentum_window)

\* a decide on a full window of one price: the old price is evicted and the
\* mid price of a view without a last-traded price takes its place
C32_Witness ==
    /\ MTDecided
    /\ pre.momentum_window = 1
    /\ Len(pre.price_history) = 1
    /\ IsNone(view.market_data_view.last_traded_price)
    /\ ~IsNone(view.market_data_view.mid_price)
    /\ ~IsNone(view.market_data_view.micro_price)
    /\ agent.price_history = <<Val(view.market_data_view.mid_price)>>
    /\ agent.price_history # pre.price_history


\* s = momentum + directional_bias and the signal, as the last decide had them
BiasedMomentum == calc.biased_momentum
Signal == calc.signal
\* sign of s - p/100
SignalCmp(p) == Sign(100 * BiasedMomentum.n - p * BiasedMomentum.d)
\* sign of |s| - p/100
AbsSignalCmp(p) == Sign(100 * Abs(BiasedMomentum.n) - p * BiasedMomentum.d)
\* s is the bias alone on fewer than two prices, and (p2 - p1) / p1 plus the
\* bias on two
BiasedMomentumIs ==
    LET h == agent.price_history IN
    /\ BiasedMomentum.d > 0
    /\ Len(h) < 2 => SignalCmp(pre.directional_bias) = 0
    /\ Len(h) = 2 =>
          BiasedMomentum.n * 100 * h[1]
              = BiasedMomentum.d * (100 * (h[2] - h[1]) + pre.directional_bias * h[1])

\* C33: the classification of s = momentum + directional_bias is total and
\* single-valued: ENTER_LONG iff s > entry_threshold; else ENTER_SHORT iff
\* s < -entry_threshold; else EXIT iff |s| < exit_threshold; else HOLD; and a
\* HOLD decide returns no intents.
C33_SignalClassification ==
    MTDecided =>
        /\ BiasedMomentumIs
        /\ Signal \in {"ENTER_LONG", "ENTER_SHORT", "EXIT", "HOLD"}
        /\ Signal = "ENTER_LONG" <=> SignalCmp(pre.entry_threshold) > 0
        /\ Signal = "ENTER_SHORT" <=>
              (SignalCmp(pre.entry_threshold) <= 0 /\ SignalCmp(- pre.entry_threshold) < 0)
        /\ Signal = "EXIT" <=>
              /\ SignalCmp(pre.entry_threshold) <= 0
              /\ SignalCmp(- pre.entry_threshold) >= 0
              /\ AbsSignalCmp(pre.exit_threshold) < 0
        /\ Signal = "HOLD" <=>
              /\ SignalCmp(pre.entry_threshold) <= 0
              /\ SignalCmp(- pre.entry_threshold) >= 0
              /\ AbsSignalCmp(pre.exit_threshold) >= 0
        /\ Signal = "HOLD" => intents = <<>>
        /\ \A k \in 1..Len(intents) :
              intents[k].side = (IF Signal = "ENTER_LONG" THEN BUY ELSE SELL)

\* a signal exactly at the entry threshold, with shares to sell and cash to
\* buy: HOLD, nothing returned
C33_Witness ==
    /\ MTDecided
    /\ SignalCmp(pre.entry_threshold) = 0
    /\ acct = [cash |-> 1000, shares |-> 50]
    /\ ~IsNone(ReferencePrice)
    /\ Signal = "HOLD"
    /\ intents = <<>>

\* int(total_wealth * max_exposure_fraction * aggressiveness * amplifier / price)
TargetShares ==
    LET price == Val(ReferencePrice)
        total_wealth == acct.cash * PriceScale + acct.shares * price
        amp == MT_calculate_liquidity_amplifier(pre, view)
    IN RatInt(RatMul(RatMul(Ratio(total_wealth, price), PctRatio(pre.max_exposure_fraction)),
                     RatMul(PctRatio(pre.aggressiveness), amp)))

\* C34: every MomentumTrader decide returns at most one intent, always a
\* MARKET order: an ENTER_SHORT sell has 1 <= quantity <= shares held; an EXIT
\* sell has quantity equal to all shares held (and nothing is emitted when
\* shares are 0); an ENTER_LONG buy has quantity <= target_shares - shares and
\* quantity * current_price * (1 + fee_rate) <= cash.
C34_OneMarketOrder ==
    MTDecided =>
        /\ Len(intents) <= 1
        /\ (Signal = "EXIT" /\ acct.shares = 0) => intents = <<>>
        /\ (Signal = "EXIT" /\ acct.shares > 0) => Len(intents) = 1
        /\ \A k \in 1..Len(intents) :
              /\ intents[k].kind = "PlaceOrder"
              /\ intents[k].order_type = MARKET
              /\ IsNone(intents[k].price)
              /\ Signal = "ENTER_SHORT" =>
                    /\ intents[k].side = SELL
                    /\ 1 <= intents[k].quantity
                    /\ intents[k].quantity <= acct.shares
              /\ Signal = "EXIT" =>
                    /\ intents[k].side = SELL
                    /\ intents[k].quantity = acct.shares
              /\ Signal = "ENTER_LONG" =>
                    /\ intents[k].side = BUY
                    /\ 1 <= intents[k].quantity
                    /\ intents[k].quantity <= TargetShares - acct.shares
                    /\ intents[k].quantity * Val(ReferencePrice) * (100 + pre.fee_rate)
                          <= acct.cash * PriceScale * 100

\* an ENTER_LONG buy that the cash cuts below the shortfall
C34_Witness ==
    /\ MTDecided
    /\ Signal = "ENTER_LONG"
    /\ Len(intents) = 1
    /\ intents[1].order_type = MARKET
    /\ intents[1].quantity < TargetShares - acct.shares
    /\ (intents[1].quantity + 1) * Val(ReferencePrice) * (100 + pre.fee_rate)
          > acct.cash * PriceScale * 100


-----------------------------------------------------------------------------
(***************************************************************************)
(* MarketMaker.decide on prices at and below 1.0, with and without a       *)
(* spread: the same decide / dispatch / update cycle on low-priced views.  *)
(***************************************************************************)
PennyConfigs == { MMConfig(0, 0), MMConfig(2, 1) }

PennyAccounts ==
    { [cash |-> 1000, shares |-> 1000], [cash |-> 1000, shares |-> 50],
      [cash |-> 10, shares |-> 50] }

\* mid prices 0.5, 1.0 and 10
PennyMarketDatas ==
    { MarketData(Some(PriceScale \div 2), None, None),
      MarketData(Some(1 * PriceScale), None, None),
      MarketData(Some(10 * PriceScale), None, None) }

InitPenny ==
    /\ kind = "MM"
    /\ acct \in PennyAccounts
    /\ agent \in { MM_init(cfg) : cfg \in PennyConfigs }
    /\ phase = "idle"
    /\ pre = agent
    /\ view = NoView
    /\ intents = <<>>
    /\ feedback = NoFeedback
    /\ tick = 0
    /\ issued = None
    /\ next_order_id = 1
    /\ EngineIdle
    /\ runs = <<>>
    /\ calc = <<>>

MMDecidePenny ==
    /\ kind = "MM"
    /\ phase = "idle"
    /\ tick < MaxTick
    /\ \E md \in PennyMarketDatas :
          LET v == AgentView(MM_AGENT_ID, tick \div agent.simulation_micro_tick,
                             tick % agent.simulation_micro_tick, md, Some(EconomyInsight))
              out == MM_decide(agent, acct, v)
          IN /\ agent' = out.self
             /\ intents' = out.intents
             /\ view' = v
    /\ pre' = agent
    /\ phase' = "decided"
    /\ tick' = tick + 1
    /\ UNCHANGED <<kind, acct, feedback, issued, next_order_id>>
    /\ UNCHANGED <<evars, runs, calc>>

NextPenny == MMDecidePenny \/ Skip \/ Dispatch \/ MMUpdate

SpecPenny == InitPenny /\ [][NextPenny]_vars

\* the skewed and fee-padded prices of this decide touch or cross
SkewedTouch ==
    LET skewed == MM_calculate_skewed_prices(pre, Ratio(acct.cash * PriceScale, PreWealth),
                                             ViewMid)
    IN skewed[1] >= skewed[2]
\* max(1.0, spread_size / 2)
RecentreSpread == Max(1 * PriceScale, (pre.spread_size * PriceScale) \div 2)

\* C35: whenever a STABILIZE decide emits both a bid and an ask, the bid price
\* is strictly below the ask price: if the skewed and fee-padded prices cross
\* or touch, both are replaced by mid -/+ max(1.0, spread_size / 2), and a
\* bid whose price is not positive is not emitted.
C35_StabilizeNeverCrosses ==
    StabilizeDecided =>
        /\ \A i, j \in 1..Len(Places) :
              (Places[i].side = BUY /\ Places[j].side = SELL)
                  => Val(Places[i].price) < Val(Places[j].price)
        /\ SkewedTouch =>
              \A i \in 1..Len(Places) :
                  Val(Places[i].price) =
                      IF Places[i].side = BUY THEN ViewMid - RecentreSpread
                      ELSE ViewMid + RecentreSpread
        /\ \A i \in 1..Len(Places) : Val(Places[i].price) > 0
        /\ (SkewedTouch /\ ViewMid <= RecentreSpread) => BUY \notin PlacedSides

\* a STABILIZE decide of a market maker without spread at the price 10: the
\* two prices touch and the quotes go out at 9 and 11
C35_Witness ==
    /\ StabilizeDecided
    /\ pre.spread_size = 0
    /\ SkewedTouch
    /\ ViewMid = 10 * PriceScale
    /\ PlacedSides = {BUY, SELL}
    /\ QuotedBid = 9 * PriceScale
    /\ QuotedAsk = 11 * PriceScale


-----------------------------------------------------------------------------
\* C36: the engine calls update on an agent exactly when its decide returned
\* a non-empty intent list: after a decide that returned no intents the agent
\* goes back to idle without update, so its order caches are not pruned and a
\* market maker's order_filled_this_tick keeps its value, which only update
\* changes; a non-empty list is dispatched and then update is called.
C36_UpdateIffIntents ==
    [][ /\ (phase = "decided" /\ intents = <<>>) =>
              /\ phase' = "idle"
              /\ OrderCache(kind, agent') = OrderCache(kind, agent)
              /\ agent'.order_filled_this_tick = agent.order_filled_this_tick
        /\ (phase = "decided" /\ intents # <<>>) => phase' = "fed"
        /\ phase = "fed" => UpdateReturns
        /\ UpdateReturns => (intents # <<>> /\ agent' = MM_update(agent, feedback))
        /\ agent'.order_filled_this_tick # agent.order_filled_this_tick => UpdateReturns
      ]_vars

\* the last decide of a run returned no intents and the engine went on: the
\* fill flag of the earlier update is still set and an order that ended
\* meanwhile is still cached (update would have reset the one and pruned the
\* other)
C36_Witness ==
    /\ phase = "idle"
    /\ tick = MaxTick
    /\ agent.order_filled_this_tick
    /\ DoneIds(OrderCache(kind, agent)) # {}


-----------------------------------------------------------------------------
\* the ids of the orders the market has created so far, all of them for this
\* agent's PlaceOrder intents
CreatedIds == 1..(next_order_id - 1)

\* C37: every CancelOrder intent an agent emits names an order id that is a
\* key of its own cache with lifecycle WORKING when decide is called, an
\* order created for one of its own earlier intents; an order the cache marks
\* DONE or an id the cache does not hold is never cancelled, and only a
\* MarketMaker emits CancelOrder intents.
C37_CancelsOwnWorkingOrders ==
    phase = "decided" =>
        /\ Cancels # <<>> => kind = "MM"
        /\ kind = "MM" =>
              /\ CancelledIds \subseteq PreWorkingIds
              /\ CancelledIds \subseteq CreatedIds
              /\ CancelledIds \cap DoneIds(OrderCache("MM", pre)) = {}

\* a decide that cancels a working order while the cache also holds an order
\* that has ended, which it leaves alone
C37_Witness ==
    /\ MMDecided
    /\ Cancels # <<>>
    /\ DoneIds(OrderCache("MM", pre)) # {}
    /\ CancelledIds \subseteq PreWorkingIds


-----------------------------------------------------------------------------
\* One agent of each kind over the full decide / dispatch / update cycle,
\* from two accounts; the market maker may quote again on every tick.
InitCaches ==
    /\ kind \in {"MM", "VI", "MT"}
    /\ acct \in { [cash |-> 1000, shares |-> 50], SkewedAccount }
    /\ agent = IF kind = "MM" THEN MM_init(RequoteConfig)
               ELSE IF kind = "VI" THEN VI_init(VIConfig, acct)
               ELSE MT_init(MTConfig)
    /\ phase = "idle"
    /\ pre = agent
    /\ view = NoView
    /\ intents = <<>>
    /\ feedback = NoFeedback
    /\ tick = 0
    /\ issued = None
    /\ next_order_id = 1
    /\ EngineIdle
    /\ runs = <<>>
    /\ calc = <<>>

SpecCaches == InitCaches /\ [][NextAgent]_vars

\* the local caches of an instance
Caches(k, a) ==
    IF k = "MM" THEN <<a.active_bids, a.active_asks>>
    ELSE IF k = "VI" THEN <<a.pending_orders, a.active_deposits>>
    ELSE <<a.active_orders>>

\* the keys of the caches
CacheKeys(k, a) ==
    IF k = "MM"
    THEN <<{ a.active_bids[i].order_id : i \in DOMAIN a.active_bids },
           { a.active_asks[i].order_id : i \in DOMAIN a.active_asks }>>
    ELSE IF k = "VI"
    THEN <<{ a.pending_orders[i].order_id : i \in DOMAIN a.pending_orders },
           { a.active_deposits[i].deposit_id : i \in DOMAIN a.active_deposits }>>
    ELSE <<{ a.active_orders[i].order_id : i \in DOMAIN a.active_orders }>>

\* what decide keeps between calls: the intent-id counter, the recorded price
\* or price history and the layer / intention tag
DecideState(k, a) ==
    IF k = "MM" THEN <<a.intent_id, a.last_known_price, a.last_layer>>
    ELSE IF k = "VI" THEN <<a.intent_id, a.last_known_price, a.current_intention>>
    ELSE <<a.intent_id, a.price_history>>

DecideReturns == phase = "idle" /\ phase' = "decided"

\* C38: decide never adds to or removes from an agent's local order and
\* deposit caches; entries are added and removed only inside update, and
\* update never changes the intent-id counter, last_known_price, the price
\* history or the layer / intention tag.
C38_CachesAndDecideStateApart ==
    [][ /\ DecideReturns => Caches(kind, agent') = Caches(kind, agent)
        /\ CacheKeys(kind, agent') # CacheKeys(kind, agent) => UpdateReturns
        /\ UpdateReturns => DecideState(kind, agent') = DecideState(kind, agent)
      ]_vars

\* a decide that cancels cached orders, which an earlier update stored, and
\* leaves them in the cache; the counter has advanced and the price is
\* recorded
C38_Witness ==
    /\ MMDecided
    /\ Cancels # <<>>
    /\ OrderCache("MM", pre) # <<>>
    /\ Caches("MM", agent) = Caches("MM", pre)
    /\ agent.intent_id > pre.intent_id
    /\ ~IsNone(agent.last_known_price)


-----------------------------------------------------------------------------
\* the layer that the ratio at the recorded price selects
RecordedPriceLayer ==
    IF RatioBelowLower \/ RatioAboveUpper THEN "SURVIVE"
    ELSE IF RatioOffTarget THEN "STABILIZE"
    ELSE "PROVIDE"

\* the view carries a price of its own
ViewHasPrice ==
    LET md == view.market_data_view IN
    ~IsNone(md.mid_price) \/ ~IsNone(md.micro_price) \/ ~IsNone(md.last_traded_price)

\* sign of r - p/100 for the ratio r taken at the price of the view
ViewRatioCmp(p) ==
    Sign(100 * acct.cash * PriceScale
         - p * (acct.cash * PriceScale + acct.shares * ViewMid))
\* the layer that the ratio at the price of the view would select
ViewPriceLayer ==
    IF acct.cash * PriceScale + acct.shares * ViewMid <= 0 THEN "PROVIDE"
    ELSE IF ViewRatioCmp(pre.risk_lower_bound) < 0 \/ ViewRatioCmp(pre.risk_upper_bound) > 0
    THEN "SURVIVE"
    ELSE IF \/ ViewRatioCmp(pre.target_inventory_fraction + pre.stabilization_tolerance) > 0
            \/ ViewRatioCmp(pre.target_inventory_fraction - pre.stabilization_tolerance) < 0
    THEN "STABILIZE"
    ELSE "PROVIDE"

CachedIds(orders) == { orders[i].order_id : i \in DOMAIN orders }

\* C39: decide selects its layer from the inventory ratio at last_known_price
\* as the previous decide left it; the price of the current view is recorded
\* during the same call, after the selection, so it bears on the layer from
\* the next decide on; the SURVIVE and STABILIZE branches act on the same
\* ratio that selected them: the panic side, and the side whose stale orders
\* are cancelled, follow the ratio at the recorded price.
C39_LayerFromRecordedPrice ==
    MMDecided =>
        /\ agent.last_layer = RecordedPriceLayer
        /\ ViewHasPrice => agent.last_known_price = Some(ViewMid)
        /\ agent.last_layer = "SURVIVE" =>
              /\ RatioBelowLower => PlacedSides \subseteq {SELL}
              /\ RatioAboveUpper => PlacedSides \subseteq {BUY}
        /\ agent.last_layer = "STABILIZE" =>
              /\ PreRatioCmp(pre.target_inventory_fraction) < 0 =>
                    CancelledIds \subseteq CachedIds(pre.active_bids)
              /\ PreRatioCmp(pre.target_inventory_fraction) >= 0 =>
                    CancelledIds \subseteq CachedIds(pre.active_asks)

\* a decide whose recorded price gives STABILIZE with too much cash while the
\* price of its view would give another layer and too many shares: the layer
\* is STABILIZE, the stale ask is cancelled, and the price of the view is
\* recorded for the next call
C39_Witness ==
    /\ MMDecided
    /\ ViewHasPrice
    /\ pre.last_known_price # Some(ViewMid)
    /\ RecordedPriceLayer = "STABILIZE"
    /\ ViewPriceLayer # "STABILIZE"
    /\ PreRatioCmp(pre.target_inventory_fraction) > 0
    /\ ViewRatioCmp(pre.target_inventory_fraction) < 0
    /\ agent.last_layer = "STABILIZE"
    /\ Cancels # <<>>
    /\ CancelledIds \subseteq CachedIds(pre.active_asks)
    /\ agent.last_known_price = Some(ViewMid)


-----------------------------------------------------------------------------
(***************************************************************************)
(* A market maker on an account it keeps (cash 1000, 50 shares), over      *)
(* MaxDecides ticks, with a spread of 4 or without spread, on prices       *)
(* between 0.5 and 12.                                                     *)
(***************************************************************************)
StackingConfigs == { MMConfig(4, 1), MMConfig(0, 0) }

StackingMarketDatas == MarketDatas \cup { MarketData(Some(PriceScale \div 2), None, None) }

InitStacking ==
    /\ kind = "MM"
    /\ acct = [cash |-> 1000, shares |-> 50]
    /\ agent \in { MM_init(cfg) : cfg \in StackingConfigs }
    /\ phase = "idle"
    /\ pre = agent
    /\ view = NoView
    /\ intents = <<>>
    /\ feedback = NoFeedback
    /\ tick = 0
    /\ issued = None
    /\ next_order_id = 1
    /\ EngineIdle
    /\ runs = <<>>
    /\ calc = <<>>

MMDecideStacking ==
    /\ kind = "MM"
    /\ phase = "idle"
    /\ tick < MaxDecides
    /\ \E md \in StackingMarketDatas :
          LET v == AgentView(MM_AGENT_ID, tick \div agent.simulation_micro_tick,
                             tick % agent.simulation_micro_tick, md, Some(EconomyInsight))
              out == MM_decide(agent, acct, v)
          IN /\ agent' = out.self
             /\ intents' = out.intents
             /\ view' = v
    /\ pre' = agent
    /\ phase' = "decided"
    /\ tick' = tick + 1
    /\ UNCHANGED <<kind, acct, feedback, issued, next_order_id>>
    /\ UNCHANGED <<evars, runs, calc>>

NextStacking == MMDecideStacking \/ Skip \/ Dispatch \/ MMUpdate

SpecStacking == InitStacking /\ [][NextStacking]_vars

\* the side that moves the inventory back to the target: asks when
\* r < target, bids otherwise
SupportiveSide == IF PreRatioCmp(pre.target_inventory_fraction) < 0 THEN SELL ELSE BUY
\* the quantity _stabilize_layer has for a side, after the clamp to cash and holdings
StabilizeQuantity(side) ==
    LET qty == MM_calculate_skewed_quantities(agent, acct,
                                              Ratio(acct.cash * PriceScale, PreWealth))
    IN IF side = BUY THEN qty[1] ELSE qty[2]

\* C40 (as stated): a STABILIZE decide places a new supportive-side order
\* whenever no cached WORKING order of that side is within 1.0 of the new
\* target price, and cancels no cached order of the supportive side.
C40_Original ==
    StabilizeDecided =>
        /\ ~SideCovered(SupportiveSide) => SupportiveSide \in PlacedSides
        /\ CancelledIds \cap CachedIds(CachedOrders(SupportiveSide)) = {}

\* C40: a STABILIZE decide places a new supportive-side order whenever no
\* cached WORKING order of that side is within 1.0 of the new target price
\* and the side's quantity and target price are positive, whatever the time
\* since the last quote; it cancels no cached order of the supportive side.
C40_SupportiveSideStacks ==
    StabilizeDecided =>
        /\ ( /\ ~SideCovered(SupportiveSide)
             /\ StabilizeQuantity(SupportiveSide) > 0
             /\ TargetPrice(SupportiveSide) > 0 ) => SupportiveSide \in PlacedSides
        /\ CancelledIds \cap CachedIds(CachedOrders(SupportiveSide)) = {}

\* a market maker in STABILIZE for the second time in a row whose cache holds
\* two WORKING orders on the supportive side and that places a third
C40_Witness ==
    /\ MMDecided
    /\ pre.last_layer = "STABILIZE"
    /\ agent.last_layer = "STABILIZE"
    /\ Cardinality(WorkingIds(CachedOrders(SupportiveSide))) >= 2
    /\ SupportiveSide \in PlacedSides
    /\ Cancels = <<>>

=============================================================================
